---- MODULE Spec2Model ----
(***************************************************************************)
(* NixFleet control plane (src/app/main.py): the command queue and its     *)
(* lifecycle, as a state machine over the hosts and command_log tables.    *)
(*                                                                         *)
(* Every HTTP handler of main.py is an `async def` that runs on one        *)
(* asyncio event loop.  The sqlite3 calls are synchronous and no handler   *)
(* modelled here awaits between its first statement and its last store     *)
(* statement, so a handler's store section runs without interleaving: it   *)
(* is one action.  Concurrent requests appear as the arbitrary order in    *)
(* which Next takes the actions.                                           *)
(*                                                                         *)
(* Time is counted in minutes.  TEXT columns holding SQL NULL are NULL;    *)
(* timestamp columns holding SQL NULL are NoTime.                          *)
(***************************************************************************)
EXTENDS Integers, Sequences, FiniteSets, TLC

(* ---- bounds of the model ---- *)
MaxTime == 6
MaxLog == 2
MaxCount == 1
MaxTokens == 2
MaxSessions == 2
MaxDrift == 1
MaxMailbox == 2
MaxStreams == 2
MaxBroadcasts == 4

(* ---- program constants ---- *)
COMMAND_TIMEOUT_MINUTES == 5
SESSION_DURATION == 1440

NULL == "NULL"
NoTime == -1

HostIds == {"node-1", "node-2"}

\* CommandRequest.command pattern: the closed vocabulary.
Commands == {"pull", "switch", "pull-switch", "test", "stop", "restart"}

\* HostStatus.status pattern.
Statuses == {"ok", "error", "unknown"}

VARIABLES
    hosts,            \* table hosts: id -> row (DOMAIN hosts = the ids that have a row)
    command_log,      \* table command_log, rows in insertion (rowid) order
    command_log_seq,  \* AUTOINCREMENT counter of command_log.id
    sessions,         \* table sessions: token -> [csrf_token, expires_at]
    cfg,              \* configuration read from the environment at import
    minted,           \* how many per-host tokens secrets.token_urlsafe has produced
    now,              \* datetime.utcnow(), in minutes
    last,             \* the most recent request and its response
    track,            \* history: per host, what happened since the last queue_command
    live_test,        \* history: per host, whether the command last queued is a test still to finish
    published,        \* the events the most recent handler passed to broadcast_event
    jar,              \* the session cookies that login has set, in the order of the logins
    serving,          \* whether the startup handler has completed and requests are served
    sse_clients,      \* the set sse_clients: the queues of the connected event streams
    queues,           \* the asyncio.Queue objects created so far: queue -> its messages
    METRICS,          \* the counters of METRICS that the model follows
    streams,          \* per queue, the generator that owns it: its position, and history
    broadcasts        \* history: the events broadcast_event has put to a snapshot, in order

vars == <<hosts, command_log, command_log_seq, sessions, cfg, minted, now, last, track,
          live_test, published, jar, serving, sse_clients, queues, METRICS, streams,
          broadcasts>>

(* ---- agent authentication ---- *)

\* hmac(AGENT_TOKEN_HASH_SECRET, token).hexdigest(): a digest that depends on
\* the key and on the token, distinct from both and (collision-free) injective.
hash_agent_token(token) == "hmac(" \o cfg.AGENT_TOKEN_HASH_SECRET \o "," \o token \o ")"

verify_agent_token_hash(stored_hash, token) ==
    IF stored_hash = NULL \/ token = "" THEN FALSE
    ELSE IF cfg.AGENT_TOKEN_HASH_SECRET = "" THEN FALSE
    ELSE stored_hash = hash_agent_token(token)

\* Mutant: the shared token is accepted whether or not shared mode is on.
SharedTokenOk_flag_ignored(token) ==
    cfg.API_TOKEN # "" /\ token = cfg.API_TOKEN

SharedTokenOk(token) ==
    cfg.ALLOW_SHARED_AGENT_TOKEN /\ cfg.API_TOKEN # "" /\ token = cfg.API_TOKEN

verify_agent_auth_for_host(host_id, token) ==
    IF token = "" THEN [ok |-> FALSE, used_shared |-> FALSE]
    ELSE LET stored_hash == IF host_id \in DOMAIN hosts
                            THEN hosts[host_id].agent_token_hash ELSE NULL
         IN  IF stored_hash # NULL /\ verify_agent_token_hash(stored_hash, token)
             THEN [ok |-> TRUE, used_shared |-> FALSE]
             ELSE IF SharedTokenOk(token)
             THEN [ok |-> TRUE, used_shared |-> TRUE]
             ELSE [ok |-> FALSE, used_shared |-> FALSE]

(* ---- session authentication ---- *)

get_csrf_token(session_token) ==
    IF session_token \in DOMAIN sessions THEN sessions[session_token].csrf_token ELSE NULL

\* Mutant: the CSRF token of any session in the store is accepted.
verify_csrf_token_any_session(session_token, csrf_token) ==
    \E t \in DOMAIN sessions : sessions[t].csrf_token = csrf_token

verify_csrf_token(session_token, csrf_token) ==
    IF session_token = NULL \/ csrf_token = "" THEN FALSE
    ELSE IF get_csrf_token(session_token) = NULL THEN FALSE
    ELSE csrf_token = get_csrf_token(session_token)

\* Mutant: a session is valid whether or not its row is in the store.
verify_session_without_row(token) == TRUE

\* verify_session returns a verdict and deletes an expired row.
verify_session(token) ==
    token \in DOMAIN sessions /\ ~(now > sessions[token].expires_at)

\* Mutant: an expired row is left in the store.
SessionsAfterVerify_keeps_row(token) == sessions

SessionsAfterVerify(token) ==
    IF token \in DOMAIN sessions /\ now > sessions[token].expires_at
    THEN [t \in DOMAIN sessions \ {token} |-> sessions[t]]
    ELSE sessions

require_auth(token) == token # NULL /\ verify_session(token)

SessionsAfterAuth(token) == IF token = NULL THEN sessions ELSE SessionsAfterVerify(token)

(* ---- signed session cookies ---- *)

Digits == "0123456789"
Upper == "ABCDEFGHIJKLMNOPQRSTUVWXYZ"
Lower == "abcdefghijklmnopqrstuvwxyz"

CharAt(text, i) == SubSeq(text, i, i)

\* The 1-based index of character c in alphabet, 0 when it is not there.
Pos(c, alphabet) ==
    IF \E i \in 1..Len(alphabet) : CharAt(alphabet, i) = c
    THEN CHOOSE i \in 1..Len(alphabet) : CharAt(alphabet, i) = c
    ELSE 0

\* The punctuation that occurs in cookies, JSON payloads and secrets, with its
\* ASCII code.
Punctuation == "!\"+,-./:=_{}"
PunctuationCodes == <<33, 34, 43, 44, 45, 46, 47, 58, 61, 95, 123, 125>>

\* The ASCII code of each character of the model.
AsciiCode(c) ==
    IF Pos(c, Digits) > 0 THEN 47 + Pos(c, Digits)
    ELSE IF Pos(c, Upper) > 0 THEN 64 + Pos(c, Upper)
    ELSE IF Pos(c, Lower) > 0 THEN 96 + Pos(c, Lower)
    ELSE PunctuationCodes[Pos(c, Punctuation)]

AsciiChars == Digits \o Upper \o Lower \o Punctuation
AsciiTable == [c \in {CharAt(AsciiChars, i) : i \in 1..Len(AsciiChars)} |-> AsciiCode(c)]

\* ord(c)
Ord(c) == AsciiTable[c]

\* chr(n); "?" for a byte outside the characters above.
Chr(n) ==
    IF n \in 48..57 THEN CharAt(Digits, n - 47)
    ELSE IF n \in 65..90 THEN CharAt(Upper, n - 64)
    ELSE IF n \in 97..122 THEN CharAt(Lower, n - 96)
    ELSE IF \E i \in 1..Len(PunctuationCodes) : PunctuationCodes[i] = n
    THEN CharAt(Punctuation, CHOOSE i \in 1..Len(PunctuationCodes) : PunctuationCodes[i] = n)
    ELSE "?"

\* text.encode("utf-8"), for ASCII text: the sequence of byte values.
Utf8Encode(text) == [i \in 1..Len(text) |-> Ord(CharAt(text, i))]

\* The concatenation of the strings chars[lo..hi].
RECURSIVE Join(_, _, _)
Join(chars, lo, hi) ==
    IF lo > hi THEN ""
    ELSE IF lo = hi THEN chars[lo]
    ELSE Join(chars, lo, (lo + hi) \div 2) \o Join(chars, (lo + hi) \div 2 + 1, hi)

\* bytes.decode("utf-8")
Utf8Decode(bytes) == Join([i \in 1..Len(bytes) |-> Chr(bytes[i])], 1, Len(bytes))

\* The URL-safe base64 alphabet: value v is written B64Char(v).
B64UrlAlphabet == Upper \o Lower \o Digits \o "-_"
B64Char(v) == CharAt(B64UrlAlphabet, v + 1)

Pow2(n) == IF n = 0 THEN 1 ELSE IF n = 2 THEN 4 ELSE IF n = 4 THEN 16
           ELSE IF n = 6 THEN 64 ELSE IF n = 8 THEN 256 ELSE 1024

\* base64.urlsafe_b64encode(data).decode("ascii").rstrip("="): character j
\* holds the six bits of data that start at bit 6 * (j - 1), padded with zero
\* bits after the last byte.
_b64url_encode(data) ==
    LET count == (8 * Len(data) + 5) \div 6
        ByteAt(k) == IF k <= Len(data) THEN data[k] ELSE 0
        Sextet(j) ==
            LET bit == 6 * (j - 1)
                window == ByteAt(bit \div 8 + 1) * 256 + ByteAt(bit \div 8 + 2)
            IN  (window \div Pow2(10 - (bit % 8))) % 64
    IN  Join([j \in 1..count |-> B64Char(Sextet(j))], 1, count)

\* The 6-bit value of a character for urlsafe_b64decode: "-" and "_" are
\* translated to "+" and "/", and "+" and "/" themselves stay in the alphabet
\* of the decoder; -1 for a character that is not in it.
B64Table ==
    [c \in {CharAt(B64UrlAlphabet, i) : i \in 1..Len(B64UrlAlphabet)} |->
        Pos(c, B64UrlAlphabet) - 1] @@ ("+" :> 62) @@ ("/" :> 63)

B64Value(c) == IF c \in DOMAIN B64Table THEN B64Table[c] ELSE -1

\* binascii.a2b_base64 reading its input (not strict): a character outside the
\* alphabet is skipped; "=" ends the input once the open group holds two or
\* three characters and the "=" read since the last character of the alphabet
\* complete it.  The result is the 6-bit values read and whether padding ended
\* the input.
B64Scan(text) ==
    LET read == [i \in 1..Len(text) |-> B64Value(CharAt(text, i))]
        Before(e) == {i \in 1..(e - 1) : read[i] >= 0}
        LastBefore(e) == IF Before(e) = {} THEN 0
                         ELSE CHOOSE i \in Before(e) : \A k \in Before(e) : k <= i
        Pads(e) == Cardinality({i \in (LastBefore(e) + 1)..e : CharAt(text, i) = "="})
        Ends(e) == /\ CharAt(text, e) = "="
                   /\ Cardinality(Before(e)) % 4 >= 2
                   /\ (Cardinality(Before(e)) % 4) + Pads(e) >= 4
        ends == {e \in 1..Len(text) : Ends(e)}
        end == IF ends = {} THEN Len(text) + 1
               ELSE CHOOSE e \in ends : \A k \in ends : e <= k
    IN  [values |-> SelectSeq(SubSeq(read, 1, end - 1), LAMBDA v : v >= 0),
         padded |-> ends # {}]

\* The bytes a sequence of 6-bit values holds: byte k is the eight bits that
\* start at bit 8 * (k - 1); the bits left over in the last character of an
\* open group are dropped.
B64Bytes(values) ==
    [k \in 1..((6 * Len(values)) \div 8) |->
        LET bit == 8 * (k - 1)
            window == values[bit \div 6 + 1] * 64 + values[bit \div 6 + 2]
        IN  (window \div Pow2(4 - (bit % 6))) % 256]

RECURSIVE Repeat(_, _)
Repeat(text, n) == IF n = 0 THEN "" ELSE text \o Repeat(text, n - 1)

\* Mutant: the padding that _b64url_encode stripped is not put back.
_b64url_decode_unpadded(data) ==
    LET scan == B64Scan(data)
    IN  IF ~scan.padded /\ Len(scan.values) % 4 # 0
        THEN [ok |-> FALSE, bytes |-> <<>>]
        ELSE [ok |-> TRUE, bytes |-> B64Bytes(scan.values)]

\* _b64url_decode(data): [ok, bytes]; ok is FALSE where binascii raises
\* ("Incorrect padding", or one character more than a multiple of 4).
_b64url_decode(data) ==
    LET pad == Repeat("=", (4 - (Len(data) % 4)) % 4)
        scan == B64Scan(data \o pad)
    IN  IF ~scan.padded /\ Len(scan.values) % 4 # 0
        THEN [ok |-> FALSE, bytes |-> <<>>]
        ELSE [ok |-> TRUE, bytes |-> B64Bytes(scan.values)]

RECURSIVE WeightedSum(_, _)
WeightedSum(bytes, i) ==
    IF i > Len(bytes) THEN 0 ELSE i * bytes[i] + WeightedSum(bytes, i + 1)

RECURSIVE PlainSum(_, _)
PlainSum(bytes, i) ==
    IF i > Len(bytes) THEN 0 ELSE bytes[i] + PlainSum(bytes, i + 1)

\* hmac.new(key, message, hashlib.sha256).digest().  SHA-256 is not computed:
\* the digest is a keyed checksum, 3 bits of the key over 13 bits of the
\* message, which no two keys and no two messages of this model share.  It is
\* two bytes wide where SHA-256 is 32: both leave a remainder of 2 modulo 3, so
\* the last base64 character of a signature holds 4 bits of the digest and 2
\* unused bits, as in the code.
hmac_digest(key, message) ==
    LET n == 8192 * (PlainSum(Utf8Encode(key), 1) % 8)
             + (WeightedSum(Utf8Encode(message), 1) % 8192)
    IN  <<n \div 256, n % 256>>

\* The first index at which marker occurs in text from index `from` on, 0 if none.
Find(text, marker, from) ==
    LET hits == {i \in from..(Len(text) - Len(marker) + 1) :
                    SubSeq(text, i, i + Len(marker) - 1) = marker}
    IN  IF hits = {} THEN 0 ELSE CHOOSE i \in hits : \A j \in hits : i <= j

StartsWith(text, prefix) ==
    Len(text) >= Len(prefix) /\ SubSeq(text, 1, Len(prefix)) = prefix

\* int(text) for a string of decimal digits; -1 where int() raises.
RECURSIVE ParseDigits(_, _)
ParseDigits(text, acc) ==
    IF text = "" THEN acc
    ELSE IF Pos(CharAt(text, 1), Digits) = 0 THEN -1
    ELSE ParseDigits(SubSeq(text, 2, Len(text)), 10 * acc + Pos(CharAt(text, 1), Digits) - 1)

ParseInt(text) == IF text = "" THEN -1 ELSE ParseDigits(text, 0)

\* json.dumps({"v": 1, "t": t, "exp": exp}, separators=(",", ":"), sort_keys=True)
json_dumps(payload) ==
    "{\"exp\":" \o ToString(payload.exp) \o ",\"t\":\"" \o payload.t
        \o "\",\"v\":" \o ToString(payload.v) \o "}"

\* json.loads on the serialisation above; ok is FALSE for any other text (the
\* only payloads that reach json.loads carry a valid signature).
json_loads(text) ==
    LET t_at == Find(text, ",\"t\":\"", 1)
        v_at == Find(text, "\",\"v\":", t_at + 6)
        exp == ParseInt(SubSeq(text, 8, t_at - 1))
        v == ParseInt(SubSeq(text, v_at + 6, Len(text) - 1))
    IN  IF /\ StartsWith(text, "{\"exp\":")
           /\ t_at > 0 /\ v_at > 0
           /\ CharAt(text, Len(text)) = "}"
           /\ exp >= 0 /\ v >= 0
        THEN [ok |-> TRUE, v |-> v, t |-> SubSeq(text, t_at + 6, v_at - 1), exp |-> exp]
        ELSE [ok |-> FALSE, v |-> 0, t |-> "", exp |-> 0]

\* int(t.timestamp()): the seconds of a time that the model counts in minutes.
Timestamp(t) == 60 * t

\* "v1.<payload_b64>.<sig_b64>" for a payload, signed with secret.
SignedEnvelope(secret, payload) ==
    LET payload_b64 == _b64url_encode(Utf8Encode(json_dumps(payload)))
        sig == hmac_digest(secret, payload_b64)
    IN  "v1." \o payload_b64 \o "." \o _b64url_encode(sig)

\* SESSION_SECRETS[0]
SigningSecret(secrets) == secrets[1]

\* sign_session_cookie: the envelope signed with the first secret; the raw
\* token when no secret is configured.
sign_session_cookie(session_token, expires_at) ==
    IF cfg.SESSION_SECRETS = <<>> THEN session_token
    ELSE SignedEnvelope(SigningSecret(cfg.SESSION_SECRETS),
                        [v |-> 1, t |-> session_token, exp |-> Timestamp(expires_at)])

\* int(datetime.utcnow().timestamp()) > exp
EnvelopeExpired(exp) == Timestamp(now) > exp

\* Mutant: only the first secret is tried.
SecretsTried_first_only(secrets) == {1}

\* for secret in SESSION_SECRETS: the secrets a signature is compared against.
SecretsTried(secrets) == 1..Len(secrets)

\* The loop over SESSION_SECRETS with hmac.compare_digest.
SignatureVerified(payload_b64, sig_bytes) ==
    \E i \in SecretsTried(cfg.SESSION_SECRETS) :
        hmac_digest(cfg.SESSION_SECRETS[i], payload_b64) = sig_bytes

\* unsign_session_cookie: the session token, or NULL (None) on rejection.
unsign_session_cookie(cookie_value) ==
    IF cookie_value = NULL \/ cookie_value = "" \/ ~StartsWith(cookie_value, "v1.")
    THEN NULL
    ELSE LET dot == Find(cookie_value, ".", 4)
             payload_b64 == SubSeq(cookie_value, 4, dot - 1)
             sig_b64 == SubSeq(cookie_value, dot + 1, Len(cookie_value))
             sig == _b64url_decode(sig_b64)
             decoded == _b64url_decode(payload_b64)
             payload == json_loads(Utf8Decode(decoded.bytes))
         IN  IF dot = 0 THEN NULL
             ELSE IF cfg.SESSION_SECRETS = <<>> THEN NULL
             ELSE IF ~sig.ok THEN NULL
             ELSE IF ~SignatureVerified(payload_b64, sig.bytes) THEN NULL
             ELSE IF ~decoded.ok \/ ~payload.ok THEN NULL
             ELSE IF payload.v # 1 THEN NULL
             ELSE IF payload.t = "" \/ payload.exp <= 0 THEN NULL
             ELSE IF EnvelopeExpired(payload.exp) THEN NULL
             ELSE payload.t

\* get_session_token: the token of the request's session cookie, NULL (None)
\* when there is no cookie or it is rejected.
get_session_token(raw) ==
    IF raw = NULL \/ raw = "" THEN NULL
    ELSE IF StartsWith(raw, "v1.") THEN unsign_session_cookie(raw)
    ELSE IF cfg.ALLOW_LEGACY_UNSIGNED_SESSION_COOKIE THEN raw
    ELSE NULL

(* ---- rows ---- *)

\* A hosts row with the column defaults of CREATE TABLE hosts; the columns no
\* handler modelled here reads (hostname, host_type, location, ...) are left out.
DefaultRow ==
    [ status             |-> "unknown",
      pending_command    |-> NULL,
      command_queued_at  |-> NoTime,
      comment            |-> NULL,
      test_status        |-> NULL,
      current_generation |-> NULL,
      test_running       |-> 0,
      test_current       |-> 0,
      test_total         |-> 0,
      test_passed_count  |-> 0,
      test_result        |-> NULL,
      last_seen          |-> NoTime,
      agent_token_hash   |-> NULL ]

\* Mutant: the auto-registered row is inserted without last_seen.
PolledRow_unseen == [DefaultRow EXCEPT !.status = "ok"]

\* INSERT INTO hosts of poll_commands (auto-register).
PolledRow == [DefaultRow EXCEPT !.status = "ok", !.last_seen = now]

\* Mutant: the merge without COALESCE.
COALESCE_overwrite(value, stored) == value

COALESCE(value, stored) == IF value = NULL THEN stored ELSE value

\* Mutant: a request for a host without a row is answered 404 instead of 401.
Response_reveals_unknown_host(op, host_id, code, command, agent_token) ==
    [op |-> op, host |-> host_id,
     code |-> IF code = 401 /\ host_id \notin DOMAIN hosts THEN 404 ELSE code,
     command |-> command, agent_token |-> agent_token]

Response(op, host_id, code, command, agent_token) ==
    [op |-> op, host |-> host_id, code |-> code, command |-> command,
     agent_token |-> agent_token]

\* A key that a published event does not carry.
Absent == "absent"

\* The data broadcast_event is called with: the type, the host and the two keys
\* that describe the command lifecycle (test_running as Python prints it).
Event(type, host_id, pending_command, test_running) ==
    [type |-> type, host_id |-> host_id, pending_command |-> pending_command,
     test_running |-> test_running]

(* ---- server-sent events ---- *)

\* asyncio.Queue(maxsize=100) of sse_events, scaled to the bound MaxMailbox.
QueueFull(queue) == Len(queue) >= MaxMailbox

\* What broadcast_event works on: the queues, the drop counter and the events
\* it has handled so far.
Broadcast == [queues |-> queues, drops |-> METRICS.sse_queue_drops, sent |-> broadcasts]

\* Mutant: put_nowait never raises QueueFull.
FullSubscribers_none(table) == {}

\* The subscribers of the snapshot whose put_nowait raises QueueFull.
FullSubscribers(table) == {q \in sse_clients : QueueFull(table[q])}

\* Mutant: the message is put at the head of each queue.
broadcast_event_prepends(acc, event) ==
    IF sse_clients = {} THEN acc
    ELSE [queues |-> [q \in DOMAIN acc.queues |->
                         IF q \in sse_clients /\ ~QueueFull(acc.queues[q])
                         THEN <<[seq |-> Len(acc.sent) + 1, event |-> event]>> \o acc.queues[q]
                         ELSE acc.queues[q]],
          drops  |-> acc.drops + Cardinality(FullSubscribers(acc.queues)),
          sent   |-> Append(acc.sent, event)]

\* Mutant: the message overtakes the one that was queued last.
broadcast_event_overtakes(acc, event) ==
    IF sse_clients = {} THEN acc
    ELSE LET message == [seq |-> Len(acc.sent) + 1, event |-> event]
             full == FullSubscribers(acc.queues)
         IN  [queues |-> [q \in DOMAIN acc.queues |->
                             IF q \in sse_clients \ full
                             THEN IF acc.queues[q] = <<>> THEN <<message>>
                                  ELSE SubSeq(acc.queues[q], 1, Len(acc.queues[q]) - 1)
                                       \o <<message, acc.queues[q][Len(acc.queues[q])]>>
                             ELSE acc.queues[q]],
              drops  |-> acc.drops + Cardinality(full),
              sent   |-> Append(acc.sent, event)]

\* broadcast_event(event_type, data): returns at once without subscribers;
\* otherwise puts the message to every queue of the snapshot, counting a drop
\* for each full one.  A message carries its number in the order of the calls.
broadcast_event(acc, event) ==
    IF sse_clients = {} THEN acc
    ELSE LET message == [seq |-> Len(acc.sent) + 1, event |-> event]
             full == FullSubscribers(acc.queues)
         IN  [queues |-> [q \in DOMAIN acc.queues |->
                             IF q \in sse_clients \ full
                             THEN Append(acc.queues[q], message) ELSE acc.queues[q]],
              drops  |-> acc.drops + Cardinality(full),
              sent   |-> Append(acc.sent, event)]

RECURSIVE BroadcastAll(_, _, _)
BroadcastAll(acc, events, i) ==
    IF i > Len(events) THEN acc
    ELSE BroadcastAll(broadcast_event(acc, events[i]), events, i + 1)

\* The handler awaits broadcast_event for each of events, in this order.
Publish(events) ==
    LET done == BroadcastAll(Broadcast, events, 1)
    IN  /\ Len(done.sent) <= MaxBroadcasts
        /\ published' = events
        /\ queues' = done.queues
        /\ METRICS' = [METRICS EXCEPT !.sse_queue_drops = done.drops]
        /\ broadcasts' = done.sent

(* ---- GET /api/events ---- *)

\* sse_events: the session is verified, and the response streams a new
\* event_generator, which has not run yet.
sse_events(session_token) ==
    IF ~require_auth(session_token)
    THEN /\ sessions' = SessionsAfterAuth(session_token)
         /\ last' = Response("events", NULL, 401, NULL, NULL)
         /\ Publish(<<>>)
         /\ UNCHANGED <<hosts, command_log, command_log_seq, cfg, minted, now, serving, sse_clients, streams, track, live_test, jar>>
    ELSE /\ Len(streams) < MaxStreams
         /\ streams' = Append(streams, [pc |-> "created", joined |-> 0, yielded |-> 0])
         /\ last' = Response("events", NULL, 200, NULL, NULL)
         /\ Publish(<<>>)
         /\ UNCHANGED <<hosts, command_log, command_log_seq, sessions, cfg, minted, now, serving, sse_clients, track, live_test, jar>>

\* The generator of stream q runs to its first yield: it creates its queue,
\* adds it to sse_clients and yields the "connected" event.  History: joined
\* is the number of events published before, yielded the number of the last
\* published event that the generator has yielded.
event_generator_start(q) ==
    /\ streams[q].pc = "created"
    /\ queues' = (q :> <<>>) @@ queues
    /\ sse_clients' = sse_clients \cup {q}
    /\ streams' = [streams EXCEPT ![q].pc = "waiting", ![q].joined = Len(broadcasts)]
    /\ UNCHANGED <<hosts, command_log, command_log_seq, sessions, cfg, minted, now, last, track,
                   live_test, published, jar, serving, METRICS, broadcasts>>

\* message = await asyncio.wait_for(queue.get(), timeout=30.0); yield message
event_generator_get(q) ==
    /\ streams[q].pc = "waiting"
    /\ queues[q] # <<>>
    /\ queues' = [queues EXCEPT ![q] = Tail(@)]
    /\ streams' = [streams EXCEPT ![q].pc = "checking", ![q].yielded = Head(queues[q]).seq]
    /\ UNCHANGED <<hosts, command_log, command_log_seq, sessions, cfg, minted, now, last, track,
                   live_test, published, jar, serving, sse_clients, METRICS, broadcasts>>

\* except asyncio.TimeoutError: yield ": keepalive" (no message within 30 s)
event_generator_keepalive(q) ==
    /\ streams[q].pc = "waiting"
    /\ queues[q] = <<>>
    /\ streams' = [streams EXCEPT ![q].pc = "checking"]
    /\ UNCHANGED <<hosts, command_log, command_log_seq, sessions, cfg, minted, now, last, track,
                   live_test, published, jar, serving, sse_clients, queues, METRICS, broadcasts>>

\* Mutant: the finally block leaves the queue in sse_clients.
Deregistered_forgotten(q) == sse_clients

\* finally: sse_clients.discard(queue)
Deregistered(q) == sse_clients \ {q}

\* The generator of stream q ends and its finally block runs; how records
\* whether it left its loop ("ended") or was cancelled ("cancelled").
Finally(q, how) ==
    /\ sse_clients' = Deregistered(q)
    /\ streams' = [streams EXCEPT ![q].pc = how]

\* if await request.is_disconnected(): break
\* Whether the client has closed the connection is for the client to decide.
event_generator_check(q, is_disconnected) ==
    /\ streams[q].pc = "checking"
    /\ IF is_disconnected
       THEN Finally(q, "ended")
       ELSE /\ streams' = [streams EXCEPT ![q].pc = "waiting"]
            /\ UNCHANGED sse_clients
    /\ UNCHANGED <<hosts, command_log, command_log_seq, sessions, cfg, minted, now, last, track,
                   live_test, published, jar, serving, queues, METRICS, broadcasts>>

\* The task that iterates the generator is cancelled while the generator is
\* suspended: CancelledError is raised at the await or the yield where it
\* stands, and the finally block runs.  A generator that has not started is
\* closed without running.
event_generator_cancel(q) ==
    /\ streams[q].pc \in {"created", "waiting", "checking"}
    /\ IF streams[q].pc = "created"
       THEN /\ streams' = [streams EXCEPT ![q].pc = "cancelled"]
            /\ UNCHANGED sse_clients
       ELSE Finally(q, "cancelled")
    /\ UNCHANGED <<hosts, command_log, command_log_seq, sessions, cfg, minted, now, last, track,
                   live_test, published, jar, serving, queues, METRICS, broadcasts>>

(* ---- history of a host's mailbox, for the claims about sequences ---- *)

\* track[h] is the command c when the last operation that acted on h was a
\* successful queue_command(h, c), "polled" when no queue_command has succeeded
\* for h since the last authenticated poll (or ever), and "stale" otherwise.
TrackOther(host_ids) ==
    [h \in HostIds |-> IF h \in host_ids /\ track[h] # "polled" THEN "stale" ELSE track[h]]

(* ---- provisioning ---- *)

\* secrets.token_urlsafe(32): a fresh value on every call.
FreshAgentToken == "agent-token-" \o ToString(minted + 1)

\* Mutant: the auto-provision block is left out.
AutoProvisions_never(table, host_id) == FALSE

\* Mutant: the block does not look at the stored hash.
AutoProvisions_always(table, host_id) ==
    /\ cfg.AUTO_PROVISION_AGENT_TOKENS
    /\ cfg.AGENT_TOKEN_HASH_SECRET # ""
    /\ host_id \in DOMAIN table

\* Whether the auto-provision block of register_host / poll_commands mints.
AutoProvisions(table, host_id) ==
    /\ cfg.AUTO_PROVISION_AGENT_TOKENS
    /\ cfg.AGENT_TOKEN_HASH_SECRET # ""
    /\ host_id \in DOMAIN table
    /\ table[host_id].agent_token_hash = NULL

\* Mutant: the token itself is stored.
provision_agent_token_for_host_raw(table, host_id) ==
    [table EXCEPT ![host_id].agent_token_hash = FreshAgentToken]

provision_agent_token_for_host(table, host_id) ==
    [table EXCEPT ![host_id].agent_token_hash = hash_agent_token(FreshAgentToken)]

(* ---- GET /api/hosts/{host_id}/poll ---- *)

\* Mutant: the SELECT skips a command older than the staleness window.
PendingCommand_fresh_only(table, host_id) ==
    IF host_id \in DOMAIN table
       /\ ~(/\ table[host_id].command_queued_at # NoTime
            /\ now - table[host_id].command_queued_at > COMMAND_TIMEOUT_MINUTES)
    THEN table[host_id].pending_command
    ELSE NULL

\* SELECT pending_command FROM hosts WHERE id = ?
PendingCommand(table, host_id) ==
    IF host_id \in DOMAIN table THEN table[host_id].pending_command ELSE NULL

\* Mutant: the poll forgets to clear the mailbox.
ClearedMailbox_kept(row) == row

\* UPDATE hosts SET pending_command = NULL WHERE id = ?
ClearedMailbox(row) == [row EXCEPT !.pending_command = NULL]

\* INSERT INTO command_log (host_id, command, status, created_at) VALUES (?, ?, 'running', ?)
RunningEntry(host_id, command) ==
    [ id           |-> command_log_seq + 1,
      host_id      |-> host_id,
      command      |-> command,
      status       |-> "running",
      output       |-> NULL,
      created_at   |-> now,
      completed_at |-> NoTime ]

poll_commands(host_id, token) ==
    IF ~verify_agent_auth_for_host(host_id, token).ok
    THEN /\ last' = Response("poll", host_id, 401, NULL, NULL)
         /\ Publish(<<>>)
         /\ UNCHANGED <<hosts, command_log, command_log_seq, sessions, cfg, minted, now, serving, sse_clients, streams, track, live_test, jar>>
    ELSE LET seen == IF host_id \in DOMAIN hosts
                     THEN [hosts EXCEPT ![host_id].last_seen = now]
                     ELSE (host_id :> PolledRow) @@ hosts
             mints == AutoProvisions(seen, host_id)
             committed == IF mints THEN provision_agent_token_for_host(seen, host_id)
                          ELSE seen
             provisioned_agent_token == IF mints THEN FreshAgentToken ELSE NULL
             command == PendingCommand(committed, host_id)
         IN  /\ mints => minted < MaxTokens
             /\ command # NULL => command_log_seq < MaxLog
             /\ minted' = IF mints THEN minted + 1 ELSE minted
             /\ IF command # NULL
                THEN /\ hosts' = [committed EXCEPT ![host_id] = ClearedMailbox(@)]
                     /\ command_log' = Append(command_log, RunningEntry(host_id, command))
                     /\ command_log_seq' = command_log_seq + 1
                ELSE /\ hosts' = committed
                     /\ UNCHANGED <<command_log, command_log_seq>>
             /\ last' = Response("poll", host_id, 200, command, provisioned_agent_token)
             /\ track' = [track EXCEPT ![host_id] = "polled"]
             /\ Publish(<<>>)
             /\ UNCHANGED <<sessions, cfg, now, serving, sse_clients, streams, live_test, jar>>

(* ---- POST /api/hosts/{host_id}/register ---- *)

\* INSERT INTO hosts of register_host: last_seen stays NULL.
RegisteredRow(registration) ==
    [DefaultRow EXCEPT !.status = "ok",
                       !.current_generation = registration.current_generation,
                       !.comment = registration.comment]

\* UPDATE hosts SET ..., current_generation = ?, last_seen = ?, status = 'ok'
ReregisteredRow(row, registration) ==
    [row EXCEPT !.status = "ok",
                !.current_generation = registration.current_generation,
                !.last_seen = now]

register_host(host_id, token, registration) ==
    IF ~verify_agent_auth_for_host(host_id, token).ok
    THEN /\ last' = Response("register", host_id, 401, NULL, NULL)
         /\ Publish(<<>>)
         /\ UNCHANGED <<hosts, command_log, command_log_seq, sessions, cfg, minted, now, serving, sse_clients, streams, track, live_test, jar>>
    ELSE LET written == IF host_id \in DOMAIN hosts
                        THEN [hosts EXCEPT ![host_id] = ReregisteredRow(@, registration)]
                        ELSE (host_id :> RegisteredRow(registration)) @@ hosts
             mints == AutoProvisions(written, host_id)
             provisioned_agent_token == IF mints THEN FreshAgentToken ELSE NULL
         IN  /\ mints => minted < MaxTokens
             /\ minted' = IF mints THEN minted + 1 ELSE minted
             /\ hosts' = IF mints THEN provision_agent_token_for_host(written, host_id)
                         ELSE written
             /\ last' = Response("register", host_id, 200, NULL, provisioned_agent_token)
             /\ Publish(<<Event("host_update", host_id, Absent, Absent)>>)
             /\ UNCHANGED <<command_log, command_log_seq, sessions, cfg, now, serving, sse_clients, streams, track, live_test, jar>>

(* ---- POST /api/hosts/{host_id}/command ---- *)

\* Mutant: the handler does not look at the rowcount of its UPDATE.
RowCount_ignored(table, host_id) == 1

\* result.rowcount of an UPDATE hosts ... WHERE id = ?
RowCount(table, host_id) == IF host_id \in DOMAIN table THEN 1 ELSE 0

\* The command_queued event: event_data of queue_command.
CommandQueuedEvent(host_id, command) ==
    Event("command_queued", host_id,
          IF command = "stop" THEN NULL ELSE command,
          IF command = "test" THEN "True" ELSE IF command = "stop" THEN "False" ELSE Absent)

\* Mutant: a queued command is kept when another one is queued after it.
QueuedRow_first_write_wins(row, command) ==
    IF command = "stop"
    THEN [row EXCEPT !.pending_command = NULL, !.test_running = 0, !.status = "ok"]
    ELSE IF row.pending_command # NULL
    THEN row
    ELSE IF command = "test"
    THEN [row EXCEPT !.pending_command = "test", !.command_queued_at = now,
                     !.test_running = 1, !.test_current = 0, !.test_total = 0,
                     !.test_passed_count = 0, !.test_result = NULL]
    ELSE [row EXCEPT !.pending_command = command, !.command_queued_at = now]

\* Mutant: stop clears the mailbox and leaves the test state alone.
QueuedRow_stop_keeps_test(row, command) ==
    IF command = "stop"
    THEN [row EXCEPT !.pending_command = NULL, !.status = "ok"]
    ELSE IF command = "test"
    THEN [row EXCEPT !.pending_command = "test", !.command_queued_at = now,
                     !.test_running = 1, !.test_current = 0, !.test_total = 0,
                     !.test_passed_count = 0, !.test_result = NULL]
    ELSE [row EXCEPT !.pending_command = command, !.command_queued_at = now]

\* The UPDATE hosts statement queue_command runs for `command`.
QueuedRow(row, command) ==
    IF command = "stop"
    THEN [row EXCEPT !.pending_command = NULL, !.test_running = 0, !.status = "ok"]
    ELSE IF command = "test"
    THEN [row EXCEPT !.pending_command = "test", !.command_queued_at = now,
                     !.test_running = 1, !.test_current = 0, !.test_total = 0,
                     !.test_passed_count = 0, !.test_result = NULL]
    ELSE [row EXCEPT !.pending_command = command, !.command_queued_at = now]

queue_command(host_id, session_token, csrf_token, command) ==
    IF ~require_auth(session_token)
    THEN /\ sessions' = SessionsAfterAuth(session_token)
         /\ last' = Response("command", host_id, 401, NULL, NULL)
         /\ Publish(<<>>)
         /\ UNCHANGED <<hosts, command_log, command_log_seq, cfg, minted, now, serving, sse_clients, streams, track, live_test, jar>>
    ELSE IF ~verify_csrf_token(session_token, csrf_token)
    THEN /\ last' = Response("command", host_id, 403, NULL, NULL)
         /\ Publish(<<>>)
         /\ UNCHANGED <<hosts, command_log, command_log_seq, sessions, cfg, minted, now, serving, sse_clients, streams, track, live_test, jar>>
    ELSE IF RowCount(hosts, host_id) = 0
    THEN /\ last' = Response("command", host_id, 404, NULL, NULL)
         /\ Publish(<<>>)
         /\ UNCHANGED <<hosts, command_log, command_log_seq, sessions, cfg, minted, now, serving, sse_clients, streams, track, live_test, jar>>
    ELSE /\ hosts' = IF host_id \in DOMAIN hosts
                     THEN [hosts EXCEPT ![host_id] = QueuedRow(@, command)]
                     ELSE hosts
         /\ last' = Response("command", host_id, 200, command, NULL)
         /\ track' = IF command = "stop" THEN TrackOther({host_id})
                     ELSE [track EXCEPT ![host_id] = command]
         /\ live_test' = [live_test EXCEPT ![host_id] = (command = "test")]
         /\ Publish(<<CommandQueuedEvent(host_id, command)>>)
         /\ UNCHANGED <<command_log, command_log_seq, sessions, cfg, minted, now, serving, sse_clients, streams, jar>>

(* ---- POST /api/hosts/{host_id}/status ---- *)

\* Python's `x in text` on strings.
Contains(text, marker) ==
    \E i \in 1..(Len(text) - Len(marker) + 1) : SubSeq(text, i, i + Len(marker) - 1) = marker

\* text.split('\n')[0]
FirstLine(text) ==
    IF Contains(text, "\n")
    THEN LET i == CHOOSE k \in 1..Len(text) :
                     /\ SubSeq(text, k, k) = "\n"
                     /\ \A j \in 1..(k - 1) : SubSeq(text, j, j) # "\n"
         IN  SubSeq(text, 1, i - 1)
    ELSE text

\* text[:n]
Truncate(text, n) == IF Len(text) > n THEN SubSeq(text, 1, n) ELSE text

\* "Generate comment from output if not provided": the comment update_status stores.
StatusComment(status) ==
    IF (status.comment = NULL \/ status.comment = "")
       /\ ~(status.output = NULL \/ status.output = "")
    THEN IF status.status = "error"
         THEN Truncate(FirstLine(status.output), 100)
         ELSE IF Contains(status.output, "Already up to date")
                 \/ Contains(status.output, "Already up-to-date")
         THEN "Already up to date"
         ELSE IF Contains(status.output, "Updating")
         THEN "Pull successful"
         ELSE status.comment
    ELSE status.comment

\* Mutant: the UPDATE of the host row is not committed.
StatusRow_uncommitted(row, status) == row

\* UPDATE hosts SET status = ?, current_generation = COALESCE(?, current_generation), ...
StatusRow(row, status) ==
    [row EXCEPT !.status = status.status,
                !.current_generation = COALESCE(status.current_generation, @),
                !.last_seen = now,
                !.test_status = COALESCE(status.test_status, @),
                !.comment = COALESCE(StatusComment(status), @)]

\* Mutant: the UPDATE lacks "AND completed_at IS NULL".
OpenEntries_all(log, host_id) ==
    {i \in 1..Len(log) : log[i].host_id = host_id}

OpenEntries(log, host_id) ==
    {i \in 1..Len(log) : log[i].host_id = host_id /\ log[i].completed_at = NoTime}

\* Mutant: ORDER BY created_at ASC.
NewestOpen_oldest(log, host_id) ==
    {i \in OpenEntries(log, host_id) :
        \A j \in OpenEntries(log, host_id) : log[i].created_at <= log[j].created_at}

\* WHERE host_id = ? AND completed_at IS NULL ORDER BY created_at DESC LIMIT 1:
\* the rows the statement may pick (SQL leaves the order of equal keys open).
NewestOpen(log, host_id) ==
    {i \in OpenEntries(log, host_id) :
        \A j \in OpenEntries(log, host_id) : log[j].created_at <= log[i].created_at}

ClosedEntry(entry, status) ==
    [entry EXCEPT !.status = status.status, !.output = status.output, !.completed_at = now]

update_status(host_id, token, status) ==
    IF ~verify_agent_auth_for_host(host_id, token).ok
    THEN /\ last' = Response("status", host_id, 401, NULL, NULL)
         /\ Publish(<<>>)
         /\ UNCHANGED <<hosts, command_log, command_log_seq, sessions, cfg, minted, now, serving, sse_clients, streams, track, live_test, jar>>
    ELSE /\ hosts' = IF host_id \in DOMAIN hosts
                     THEN [hosts EXCEPT ![host_id] = StatusRow(@, status)]
                     ELSE hosts
         /\ IF NewestOpen(command_log, host_id) = {}
            THEN command_log' = command_log
            ELSE \E i \in NewestOpen(command_log, host_id) :
                    command_log' = [command_log EXCEPT ![i] = ClosedEntry(@, status)]
         /\ last' = Response("status", host_id, 200, NULL, NULL)
         /\ track' = TrackOther({host_id})
         /\ Publish(<<Event("host_update", host_id, NULL, "False")>>)
         /\ UNCHANGED <<command_log_seq, sessions, cfg, minted, now, serving, sse_clients, streams, live_test, jar>>

(* ---- POST /api/hosts/{host_id}/test-progress ---- *)

\* f"{progress.passed}/{progress.total} passed"
TestStatusText(progress) ==
    ToString(progress.passed) \o "/" \o ToString(progress.total) \o " passed"

\* Mutant: the final report leaves the mailbox as it is.
ProgressRow_keeps_mailbox(row, progress) ==
    IF progress.running
    THEN [row EXCEPT !.test_running = 1,
                     !.test_current = progress.current,
                     !.test_total = progress.total,
                     !.test_passed_count = progress.passed,
                     !.last_seen = now]
    ELSE [row EXCEPT !.test_running = 0,
                     !.test_current = progress.current,
                     !.test_total = progress.total,
                     !.test_passed_count = progress.passed,
                     !.test_result = progress.result,
                     !.test_status = TestStatusText(progress),
                     !.comment = COALESCE(progress.comment, @),
                     !.last_seen = now]

ProgressRow(row, progress) ==
    IF progress.running
    THEN [row EXCEPT !.test_running = 1,
                     !.test_current = progress.current,
                     !.test_total = progress.total,
                     !.test_passed_count = progress.passed,
                     !.last_seen = now]
    ELSE [row EXCEPT !.test_running = 0,
                     !.test_current = progress.current,
                     !.test_total = progress.total,
                     !.test_passed_count = progress.passed,
                     !.test_result = progress.result,
                     !.test_status = TestStatusText(progress),
                     !.comment = COALESCE(progress.comment, @),
                     !.last_seen = now,
                     !.pending_command = NULL]

update_test_progress(host_id, token, progress) ==
    IF ~verify_agent_auth_for_host(host_id, token).ok
    THEN /\ last' = Response("test-progress", host_id, 401, NULL, NULL)
         /\ Publish(<<>>)
         /\ UNCHANGED <<hosts, command_log, command_log_seq, sessions, cfg, minted, now, serving, sse_clients, streams, track, live_test, jar>>
    ELSE /\ hosts' = IF host_id \in DOMAIN hosts
                     THEN [hosts EXCEPT ![host_id] = ProgressRow(@, progress)]
                     ELSE hosts
         /\ last' = Response("test-progress", host_id, 200, NULL, NULL)
         /\ track' = TrackOther({host_id})
         /\ live_test' = IF progress.running THEN live_test
                         ELSE [live_test EXCEPT ![host_id] = FALSE]
         /\ Publish(<<Event("test_progress", host_id, Absent,
                            IF progress.running THEN "True" ELSE "False")>>)
         /\ UNCHANGED <<command_log, command_log_seq, sessions, cfg, minted, now, serving, sse_clients, streams, jar>>

(* ---- GET / (dashboard) and GET /api/hosts ---- *)

\* "Command timeout: if pending for >5 min, mark as stale"
Stale(row) ==
    /\ row.pending_command # NULL
    /\ row.command_queued_at # NoTime
    /\ now - row.command_queued_at > COMMAND_TIMEOUT_MINUTES

StaleHosts == {h \in DOMAIN hosts : Stale(hosts[h])}

\* Mutant: the guard is total >= 0.
test_passed_zero_total(row) ==
    IF row.test_total >= 0
    THEN (IF row.test_passed_count = row.test_total THEN "True" ELSE "False")
    ELSE "None"

\* host["test_passed"] of the rendered dashboard: True, False or None.
test_passed(row) ==
    IF row.test_total > 0
    THEN (IF row.test_passed_count = row.test_total THEN "True" ELSE "False")
    ELSE "None"

dashboard(session_token) ==
    IF session_token = NULL \/ ~verify_session(session_token)
    THEN /\ sessions' = SessionsAfterAuth(session_token)
         /\ last' = Response("dashboard", NULL, 302, NULL, NULL)
         /\ Publish(<<>>)
         /\ UNCHANGED <<hosts, command_log, command_log_seq, cfg, minted, now, serving, sse_clients, streams, track, live_test, jar>>
    ELSE /\ hosts' = [h \in DOMAIN hosts |->
                        IF Stale(hosts[h])
                        THEN [hosts[h] EXCEPT !.pending_command = NULL, !.test_running = 0]
                        ELSE hosts[h]]
         /\ last' = Response("dashboard", NULL, 200, NULL, NULL)
         /\ track' = TrackOther(StaleHosts)
         /\ live_test' = [h \in HostIds |-> IF h \in StaleHosts THEN FALSE ELSE live_test[h]]
         /\ Publish(<<>>)
         /\ UNCHANGED <<command_log, command_log_seq, sessions, cfg, minted, now, serving, sse_clients, streams, jar>>

\* host["online"] of list_hosts: a row that was never seen is offline.
Online(row) ==
    IF row.last_seen # NoTime THEN now - row.last_seen < 5 ELSE FALSE

\* The body of list_hosts: the rows of SELECT * FROM hosts, each with its online
\* flag. id is the primary key of the table, and the order of the rows (by
\* hostname, a column that is left out) is not modelled.
HostList ==
    {[id |-> h, row |-> hosts[h], online |-> Online(hosts[h])] : h \in DOMAIN hosts}

list_hosts(session_token) ==
    IF ~require_auth(session_token)
    THEN /\ sessions' = SessionsAfterAuth(session_token)
         /\ last' = Response("hosts", NULL, 401, NULL, NULL)
         /\ Publish(<<>>)
         /\ UNCHANGED <<hosts, command_log, command_log_seq, cfg, minted, now, serving, sse_clients, streams, track, live_test, jar>>
    ELSE /\ last' = [op |-> "hosts", host |-> NULL, code |-> 200, command |-> NULL,
                     agent_token |-> NULL, hosts |-> HostList]
         /\ Publish(<<>>)
         /\ UNCHANGED <<hosts, command_log, command_log_seq, sessions, cfg, minted, now, serving, sse_clients, streams, track, live_test, jar>>

(* ---- host ids ---- *)

\* str.lower() on the letters of the model.
RECURSIVE lower(_)
lower(text) ==
    IF text = "" THEN ""
    ELSE LET c == CharAt(text, 1)
             u == Pos(c, Upper)
         IN  (IF u > 0 THEN CharAt(Lower, u) ELSE c) \o lower(SubSeq(text, 2, Len(text)))

\* value.strip() for the blanks of the model.
RECURSIVE strip(_)
strip(text) ==
    IF text # "" /\ CharAt(text, 1) = " " THEN strip(SubSeq(text, 2, Len(text)))
    ELSE IF text # "" /\ CharAt(text, Len(text)) = " " THEN strip(SubSeq(text, 1, Len(text) - 1))
    ELSE text

\* HOST_ID_PATTERN: ^[a-zA-Z][a-zA-Z0-9\-]{0,62}$
HostIdMatches(host_id) ==
    /\ Len(host_id) \in 1..63
    /\ Pos(CharAt(host_id, 1), Upper \o Lower) > 0
    /\ \A i \in 2..Len(host_id) : Pos(CharAt(host_id, i), Upper \o Lower \o Digits \o "-") > 0

(* ---- POST /login, POST /logout ---- *)

\* bcrypt.checkpw(password, PASSWORD_HASH); a bcrypt hash is modelled as the
\* prefix "$2b$" followed by the password it was made from.
verify_password(password) ==
    IF cfg.PASSWORD_HASH = "" THEN FALSE
    ELSE IF ~StartsWith(cfg.PASSWORD_HASH, "$2b$") /\ ~StartsWith(cfg.PASSWORD_HASH, "$2a$") THEN FALSE
    ELSE SubSeq(cfg.PASSWORD_HASH, 5, Len(cfg.PASSWORD_HASH)) = password

\* secrets.token_urlsafe(32) of create_session: fresh values on every call.
FreshSessionToken == "session-" \o ToString(Len(jar) + 1)
FreshCsrfToken == "csrf-" \o ToString(Len(jar) + 1)

\* create_session: the row it inserts.
create_session == [csrf_token |-> FreshCsrfToken, expires_at |-> now + SESSION_DURATION]

\* login without TOTP (TOTP_SECRET is not set).
login(password) ==
    IF ~verify_password(password)
    THEN /\ last' = Response("login", NULL, 302, NULL, NULL)
         /\ Publish(<<>>)
         /\ UNCHANGED <<hosts, command_log, command_log_seq, sessions, cfg, minted, now, serving, sse_clients, streams, track, live_test, jar>>
    ELSE /\ Len(jar) < MaxSessions
         /\ sessions' = (FreshSessionToken :> create_session) @@ sessions
         /\ jar' = Append(jar, sign_session_cookie(FreshSessionToken, create_session.expires_at))
         /\ last' = Response("login", NULL, 302, NULL, NULL)
         /\ Publish(<<>>)
         /\ UNCHANGED <<hosts, command_log, command_log_seq, cfg, minted, now, serving, sse_clients, streams, track, live_test>>

\* delete_session
delete_session(token) == [t \in DOMAIN sessions \ {token} |-> sessions[t]]

logout(session_token, csrf_token) ==
    IF session_token # NULL /\ ~verify_csrf_token(session_token, csrf_token)
    THEN /\ last' = Response("logout", NULL, 403, NULL, NULL)
         /\ Publish(<<>>)
         /\ UNCHANGED <<hosts, command_log, command_log_seq, sessions, cfg, minted, now, serving, sse_clients, streams, track, live_test, jar>>
    ELSE /\ sessions' = IF session_token # NULL THEN delete_session(session_token) ELSE sessions
         /\ last' = Response("logout", NULL, 302, NULL, NULL)
         /\ Publish(<<>>)
         /\ UNCHANGED <<hosts, command_log, command_log_seq, cfg, minted, now, serving, sse_clients, streams, track, live_test, jar>>

(* ---- POST /api/hosts, PATCH and DELETE /api/hosts/{host_id}, agent-token ---- *)

\* Mutant: the row is inserted with last_seen set.
ManualRow_seen ==
    [DefaultRow EXCEPT !.comment = "Manually added, awaiting agent connection",
                       !.last_seen = now]

\* INSERT INTO hosts of add_host_manually.
ManualRow ==
    [DefaultRow EXCEPT !.comment = "Manually added, awaiting agent connection"]

add_host_manually(session_token, csrf_token, hostname) ==
    LET host_id == lower(strip(hostname))
    IN  IF ~require_auth(session_token)
        THEN /\ sessions' = SessionsAfterAuth(session_token)
             /\ last' = Response("add_host", host_id, 401, NULL, NULL)
             /\ Publish(<<>>)
             /\ UNCHANGED <<hosts, command_log, command_log_seq, cfg, minted, now, serving, sse_clients, streams, track, live_test, jar>>
        ELSE IF ~verify_csrf_token(session_token, csrf_token)
        THEN /\ last' = Response("add_host", host_id, 403, NULL, NULL)
             /\ Publish(<<>>)
             /\ UNCHANGED <<hosts, command_log, command_log_seq, sessions, cfg, minted, now, serving, sse_clients, streams, track, live_test, jar>>
        ELSE IF ~HostIdMatches(host_id)
        THEN /\ last' = Response("add_host", host_id, 400, NULL, NULL)
             /\ Publish(<<>>)
             /\ UNCHANGED <<hosts, command_log, command_log_seq, sessions, cfg, minted, now, serving, sse_clients, streams, track, live_test, jar>>
        ELSE IF host_id \in DOMAIN hosts
        THEN /\ last' = Response("add_host", host_id, 409, NULL, NULL)
             /\ Publish(<<>>)
             /\ UNCHANGED <<hosts, command_log, command_log_seq, sessions, cfg, minted, now, serving, sse_clients, streams, track, live_test, jar>>
        ELSE /\ hosts' = (host_id :> ManualRow) @@ hosts
             /\ last' = Response("add_host", host_id, 200, NULL, NULL)
             /\ Publish(<<Event("host_update", host_id, Absent, Absent)>>)
             /\ UNCHANGED <<command_log, command_log_seq, sessions, cfg, minted, now, serving, sse_clients, streams, track, live_test, jar>>

\* The UPDATE hosts statement of update_host, for the columns of the model.
UpdatedRow(row, update) ==
    [row EXCEPT !.comment = IF update.comment # NULL THEN update.comment ELSE @,
                !.test_status = IF update.test_status # NULL THEN update.test_status ELSE @]

\* update_host calls require_auth and never verify_csrf: the X-CSRF-Token header
\* of the request is not read.
update_host(host_id, session_token, update) ==
    IF ~HostIdMatches(host_id)
    THEN /\ last' = Response("update_host", host_id, 400, NULL, NULL)
         /\ Publish(<<>>)
         /\ UNCHANGED <<hosts, command_log, command_log_seq, sessions, cfg, minted, now, serving, sse_clients, streams, track, live_test, jar>>
    ELSE IF ~require_auth(session_token)
    THEN /\ sessions' = SessionsAfterAuth(session_token)
         /\ last' = Response("update_host", host_id, 401, NULL, NULL)
         /\ Publish(<<>>)
         /\ UNCHANGED <<hosts, command_log, command_log_seq, cfg, minted, now, serving, sse_clients, streams, track, live_test, jar>>
    ELSE /\ hosts' = IF lower(host_id) \in DOMAIN hosts
                     THEN [hosts EXCEPT ![lower(host_id)] = UpdatedRow(@, update)]
                     ELSE hosts
         /\ last' = Response("update_host", host_id, 200, NULL, NULL)
         /\ Publish(<<>>)
         /\ UNCHANGED <<command_log, command_log_seq, sessions, cfg, minted, now, serving, sse_clients, streams, track, live_test, jar>>

\* Mutant: the rotation leaves a hash that is set as it is.
RotatedRow_kept(row) ==
    IF row.agent_token_hash # NULL THEN row
    ELSE [row EXCEPT !.agent_token_hash = hash_agent_token(FreshAgentToken)]

\* UPDATE hosts SET agent_token_hash = ? of rotate_host_agent_token.
RotatedRow(row) ==
    [row EXCEPT !.agent_token_hash = hash_agent_token(FreshAgentToken)]

rotate_host_agent_token(host_id, session_token, csrf_token) ==
    IF ~HostIdMatches(host_id)
    THEN /\ last' = Response("rotate", host_id, 400, NULL, NULL)
         /\ Publish(<<>>)
         /\ UNCHANGED <<hosts, command_log, command_log_seq, sessions, cfg, minted, now, serving, sse_clients, streams, track, live_test, jar>>
    ELSE IF ~require_auth(session_token)
    THEN /\ sessions' = SessionsAfterAuth(session_token)
         /\ last' = Response("rotate", host_id, 401, NULL, NULL)
         /\ Publish(<<>>)
         /\ UNCHANGED <<hosts, command_log, command_log_seq, cfg, minted, now, serving, sse_clients, streams, track, live_test, jar>>
    ELSE IF ~verify_csrf_token(session_token, csrf_token)
    THEN /\ last' = Response("rotate", host_id, 403, NULL, NULL)
         /\ Publish(<<>>)
         /\ UNCHANGED <<hosts, command_log, command_log_seq, sessions, cfg, minted, now, serving, sse_clients, streams, track, live_test, jar>>
    ELSE IF cfg.AGENT_TOKEN_HASH_SECRET = ""
    THEN /\ last' = Response("rotate", host_id, 500, NULL, NULL)
         /\ Publish(<<>>)
         /\ UNCHANGED <<hosts, command_log, command_log_seq, sessions, cfg, minted, now, serving, sse_clients, streams, track, live_test, jar>>
    ELSE /\ minted < MaxTokens
         /\ minted' = minted + 1
         /\ Publish(<<>>)
         /\ IF lower(host_id) \notin DOMAIN hosts
            THEN /\ last' = Response("rotate", host_id, 404, NULL, NULL)
                 /\ UNCHANGED hosts
            ELSE /\ hosts' = [hosts EXCEPT ![lower(host_id)] = RotatedRow(@)]
                 /\ last' = Response("rotate", host_id, 200, NULL, FreshAgentToken)
         /\ UNCHANGED <<command_log, command_log_seq, sessions, cfg, now, serving, sse_clients, streams, track, live_test, jar>>

\* Mutant: delete_host leaves the log entries of the host.
LogWithout_kept(host_id) == command_log

\* DELETE FROM command_log WHERE host_id = ?
LogWithout(host_id) == SelectSeq(command_log, LAMBDA e : e.host_id # host_id)

delete_host(host_id, session_token, csrf_token) ==
    IF ~HostIdMatches(host_id)
    THEN /\ last' = Response("delete_host", host_id, 400, NULL, NULL)
         /\ Publish(<<>>)
         /\ UNCHANGED <<hosts, command_log, command_log_seq, sessions, cfg, minted, now, serving, sse_clients, streams, track, live_test, jar>>
    ELSE IF ~require_auth(session_token)
    THEN /\ sessions' = SessionsAfterAuth(session_token)
         /\ last' = Response("delete_host", host_id, 401, NULL, NULL)
         /\ Publish(<<>>)
         /\ UNCHANGED <<hosts, command_log, command_log_seq, cfg, minted, now, serving, sse_clients, streams, track, live_test, jar>>
    ELSE IF ~verify_csrf_token(session_token, csrf_token)
    THEN /\ last' = Response("delete_host", host_id, 403, NULL, NULL)
         /\ Publish(<<>>)
         /\ UNCHANGED <<hosts, command_log, command_log_seq, sessions, cfg, minted, now, serving, sse_clients, streams, track, live_test, jar>>
    ELSE IF lower(host_id) \notin DOMAIN hosts
    THEN /\ last' = Response("delete_host", host_id, 404, NULL, NULL)
         /\ Publish(<<>>)
         /\ UNCHANGED <<hosts, command_log, command_log_seq, sessions, cfg, minted, now, serving, sse_clients, streams, track, live_test, jar>>
    ELSE /\ hosts' = [h \in DOMAIN hosts \ {lower(host_id)} |-> hosts[h]]
         /\ command_log' = LogWithout(lower(host_id))
         /\ last' = Response("delete_host", host_id, 200, NULL, NULL)
         /\ track' = [track EXCEPT ![lower(host_id)] = "polled"]
         /\ live_test' = [live_test EXCEPT ![lower(host_id)] = FALSE]
         /\ Publish(<<>>)
         /\ UNCHANGED <<command_log_seq, sessions, cfg, minted, now, serving, sse_clients, streams, jar>>

(* ---- startup ---- *)

\* [s.strip() for s in raw.split(",") if s.strip()]
RECURSIVE ParseSecrets(_)
ParseSecrets(raw) ==
    LET comma == Find(raw, ",", 1)
        head == strip(IF comma = 0 THEN raw ELSE SubSeq(raw, 1, comma - 1))
        rest == IF comma = 0 THEN <<>> ELSE ParseSecrets(SubSeq(raw, comma + 1, Len(raw)))
    IN  IF head = "" THEN rest ELSE <<head>> \o rest

\* DELETE FROM sessions WHERE expires_at < now
cleanup_expired_sessions ==
    [t \in {u \in DOMAIN sessions : ~(sessions[u].expires_at < now)} |-> sessions[t]]

\* str(ipaddress.ip_address(text)) for the addresses of the model: an address
\* in canonical form is returned as it is, the long form of the IPv6 loopback
\* is compressed, and NULL stands for ValueError.
ip_address(text) ==
    IF text \in {"10.0.0.1", "10.0.0.2", "::1"} THEN text
    ELSE IF text = "0:0:0:0:0:0:0:1" THEN "::1"
    ELSE NULL

\* The loop that fills TRUSTED_PROXY_IPS: entries that are no addresses are
\* ignored.
ParseProxyIps(raw) ==
    LET parts == ParseSecrets(raw)
    IN  {ip_address(parts[i]) : i \in DOMAIN parts} \ {NULL}

\* The configuration that the module reads from environment env at import.
Configuration(env) ==
    [ API_TOKEN                   |-> env.API_TOKEN,
      AGENT_TOKEN_HASH_SECRET     |-> env.AGENT_TOKEN_HASH_SECRET,
      ALLOW_SHARED_AGENT_TOKEN    |-> env.ALLOW_SHARED_AGENT_TOKEN,
      AUTO_PROVISION_AGENT_TOKENS |-> env.AUTO_PROVISION_AGENT_TOKENS,
      PASSWORD_HASH               |-> env.PASSWORD_HASH,
      SESSION_SECRETS             |-> ParseSecrets(env.SESSION_SECRETS),
      ALLOW_LEGACY_UNSIGNED_SESSION_COOKIE |-> env.DEV_MODE,
      TRUST_PROXY_HEADERS         |-> lower(env.TRUST_PROXY_HEADERS) \in {"1", "true", "yes"},
      TRUSTED_PROXY_IPS           |-> ParseProxyIps(env.TRUSTED_PROXY_IPS) ]

\* Mutant: startup validates nothing.
ConfigurationErrors_none(env) == {}

\* The errors list of startup, by the name of what is missing.
ConfigurationErrors(env) ==
    LET config == Configuration(env)
    IN  {e \in {"bcrypt", "PASSWORD_HASH", "API_TOKEN", "AGENT_TOKEN_HASH_SECRET",
                "SESSION_SECRETS", "TOTP_SECRET", "pyotp"} :
           \/ e = "bcrypt" /\ ~env.BCRYPT_AVAILABLE
           \/ e = "PASSWORD_HASH"
                /\ ~(StartsWith(config.PASSWORD_HASH, "$2b$") \/ StartsWith(config.PASSWORD_HASH, "$2a$"))
           \/ e = "API_TOKEN"
                /\ config.ALLOW_SHARED_AGENT_TOKEN /\ config.API_TOKEN = "" /\ ~env.DEV_MODE
           \/ e = "AGENT_TOKEN_HASH_SECRET"
                /\ (config.AUTO_PROVISION_AGENT_TOKENS \/ ~config.ALLOW_SHARED_AGENT_TOKEN)
                /\ config.AGENT_TOKEN_HASH_SECRET = "" /\ ~env.DEV_MODE
           \/ e = "SESSION_SECRETS" /\ config.SESSION_SECRETS = <<>> /\ ~env.DEV_MODE
           \/ e = "TOTP_SECRET" /\ env.REQUIRE_TOTP /\ env.TOTP_SECRET = ""
           \/ e = "pyotp" /\ env.REQUIRE_TOTP /\ ~env.TOTP_AVAILABLE}

\* The process is restarted in environment env: the module is imported, then
\* the startup handler runs.  It raises RuntimeError on a configuration error,
\* and then the server does not serve; otherwise it calls init_db (the tables
\* exist already) and cleanup_expired_sessions.  The database outlives the
\* process, and so do the cookies; the event streams and the counters do not.
startup(env) ==
    /\ cfg' = Configuration(env)
    /\ IF ConfigurationErrors(env) # {}
       THEN /\ serving' = FALSE
            /\ last' = Response("startup", NULL, 1, NULL, NULL)
            /\ UNCHANGED sessions
       ELSE /\ serving' = TRUE
            /\ last' = Response("startup", NULL, 0, NULL, NULL)
            /\ sessions' = cleanup_expired_sessions
    /\ published' = <<>>
    /\ sse_clients' = {}
    /\ queues' = <<>>
    /\ streams' = <<>>
    /\ METRICS' = [sse_queue_drops |-> 0]
    /\ UNCHANGED <<hosts, command_log, command_log_seq, minted, now, track, live_test, jar,
                   broadcasts>>

(* ---- the client address ---- *)

\* request.headers.get(name, ""): a header the request does not carry reads as
\* the empty string.
HeaderGet(request, name) ==
    IF request[name] = Absent THEN "" ELSE request[name]

\* text.split(",")[0]
FirstPart(text) ==
    LET comma == Find(text, ",", 1)
    IN  IF comma = 0 THEN text ELSE SubSeq(text, 1, comma - 1)

\* Mutant: forwarded headers are trusted from every peer.
get_client_ip_any_peer(request) ==
    LET direct_ip == IF request.client # NULL THEN request.client ELSE "unknown"
        xff       == HeaderGet(request, "x_forwarded_for")
        first     == strip(FirstPart(xff))
        xri       == strip(HeaderGet(request, "x_real_ip"))
    IN  IF ~cfg.TRUST_PROXY_HEADERS THEN direct_ip
        ELSE IF xff # "" /\ first # "" THEN first
        ELSE IF xri # "" THEN xri
        ELSE direct_ip

get_client_ip(request) ==
    LET direct_ip == IF request.client # NULL THEN request.client ELSE "unknown"
        xff       == HeaderGet(request, "x_forwarded_for")
        first     == strip(FirstPart(xff))
        xri       == strip(HeaderGet(request, "x_real_ip"))
    IN  IF ~cfg.TRUST_PROXY_HEADERS THEN direct_ip
        ELSE IF cfg.TRUSTED_PROXY_IPS # {} /\ direct_ip \notin cfg.TRUSTED_PROXY_IPS
             THEN direct_ip
        ELSE IF xff # "" /\ first # "" THEN first
        ELSE IF xri # "" THEN xri
        ELSE direct_ip

\* The limiter asks its key function for the key of a request.
limiter_key(request) ==
    /\ serving
    /\ last' = [op |-> "limiter_key", request |-> request, key |-> get_client_ip(request)]
    /\ UNCHANGED <<hosts, command_log, command_log_seq, sessions, cfg, minted, now, track,
                   live_test, published, jar, serving, sse_clients, queues, METRICS, streams,
                   broadcasts>>

(* ---- time ---- *)

TickSteps == {COMMAND_TIMEOUT_MINUTES, COMMAND_TIMEOUT_MINUTES + 1}

Tick(d) ==
    /\ now + d <= MaxTime
    /\ now' = now + d
    /\ UNCHANGED <<hosts, command_log, command_log_seq, sessions, cfg, minted, last, serving, sse_clients, streams, track,
                   live_test, published, queues, METRICS, broadcasts, jar>>

\* Time passes by a minute or by the lifetime of a session; the clock is read
\* within MaxDrift minutes of a login at time 0 and of the expiry of its session.
SessionTickSteps == {1, SESSION_DURATION}

SessionTick(d) ==
    /\ now + d <= SESSION_DURATION + MaxDrift
    /\ (now + d) % SESSION_DURATION <= MaxDrift
    /\ now' = now + d
    /\ UNCHANGED <<hosts, command_log, command_log_seq, sessions, cfg, minted, last, serving, sse_clients, streams, track,
                   live_test, published, queues, METRICS, broadcasts, jar>>

(* ---- the command lifecycle: one host, one logged-in administrator ---- *)

AdminSession == "session-1"
AdminCsrf == "csrf-1"

\* The configuration of the test suite, without auto-provisioning.
LifecycleCfg ==
    [ API_TOKEN                   |-> "shared-agent-token",
      AGENT_TOKEN_HASH_SECRET     |-> "agent-hash-secret",
      ALLOW_SHARED_AGENT_TOKEN    |-> TRUE,
      AUTO_PROVISION_AGENT_TOKENS |-> FALSE,
      PASSWORD_HASH               |-> "$2b$hunter2",
      SESSION_SECRETS             |-> <<"secret-a">>,
      ALLOW_LEGACY_UNSIGNED_SESSION_COOKIE |-> FALSE,
      TRUST_PROXY_HEADERS         |-> FALSE,
      TRUSTED_PROXY_IPS           |-> {} ]

\* The environment of the test suite.
LifecycleEnv ==
    [ API_TOKEN                   |-> "shared-agent-token",
      AGENT_TOKEN_HASH_SECRET     |-> "agent-hash-secret",
      ALLOW_SHARED_AGENT_TOKEN    |-> TRUE,
      AUTO_PROVISION_AGENT_TOKENS |-> FALSE,
      PASSWORD_HASH               |-> "$2b$hunter2",
      SESSION_SECRETS             |-> "secret-a",
      DEV_MODE                    |-> FALSE,
      BCRYPT_AVAILABLE            |-> TRUE,
      REQUIRE_TOTP                |-> FALSE,
      TOTP_SECRET                 |-> "",
      TOTP_AVAILABLE              |-> TRUE,
      TRUST_PROXY_HEADERS         |-> "",
      TRUSTED_PROXY_IPS           |-> "" ]

\* The store after init_db and one login at time 0, under configuration config.
InitWith(config) ==
    /\ hosts = <<>>
    /\ command_log = <<>>
    /\ command_log_seq = 0
    /\ sessions = (AdminSession :> [csrf_token |-> AdminCsrf, expires_at |-> SESSION_DURATION])
    /\ cfg = config
    /\ minted = 0
    /\ now = 0
    /\ last = Response("none", NULL, 0, NULL, NULL)
    /\ track = [h \in HostIds |-> "polled"]
    /\ live_test = [h \in HostIds |-> FALSE]
    /\ published = <<>>
    /\ jar = <<sign_session_cookie(AdminSession, SESSION_DURATION)>>
    /\ serving = TRUE
    /\ sse_clients = {}
    /\ queues = <<>>
    /\ METRICS = [sse_queue_drops |-> 0]
    /\ streams = <<>>
    /\ broadcasts = <<>>

Init == InitWith(LifecycleCfg)

\* Request inputs: a valid and a missing credential of each kind.
SharedToken == "shared-agent-token"
AgentTokens == {SharedToken, ""}
SessionCookies == {AdminSession, NULL}
CsrfHeaders == {AdminCsrf, ""}

LifecycleHosts == {"node-1"}

\* One command for each branch of queue_command.
LifecycleCommands == {"pull", "test", "stop"}

\* Reports of the lifecycle specification: only the required fields vary.
StatusReports ==
    {[status |-> "ok", current_generation |-> NULL, output |-> "done",
      test_status |-> NULL, comment |-> NULL]}

ProgressReports ==
    {[current |-> n, total |-> n, passed |-> n, running |-> r,
      result |-> NULL, comment |-> NULL] : n \in {MaxCount}, r \in BOOLEAN}

Next ==
    \/ \E h \in LifecycleHosts, t \in AgentTokens : poll_commands(h, t)
    \/ \E h \in LifecycleHosts, s \in SessionCookies, x \in CsrfHeaders,
          c \in LifecycleCommands : queue_command(h, s, x, c)
    \/ \E h \in LifecycleHosts, r \in StatusReports : update_status(h, SharedToken, r)
    \/ \E h \in LifecycleHosts, p \in ProgressReports :
          update_test_progress(h, SharedToken, p)
    \/ dashboard(AdminSession)
    \/ list_hosts(AdminSession)
    \/ \E d \in TickSteps : Tick(d)

Spec == Init /\ [][Next]_vars

(* ---- the fleet: two hosts, one command, reports that close log entries ---- *)

NextFleet ==
    \/ \E h \in HostIds : poll_commands(h, SharedToken)
    \/ \E h \in HostIds : queue_command(h, AdminSession, AdminCsrf, "pull")
    \/ \E h \in HostIds, r \in StatusReports : update_status(h, SharedToken, r)
    \/ \E d \in TickSteps : Tick(d)

SpecFleet == Init /\ [][NextFleet]_vars

(* ---- status reports with every combination of optional fields ---- *)

MergeReports ==
    [ status             : {"ok", "error"},
      current_generation : {NULL, "gen-2"},
      output             : {NULL, "", "fatal: no route\ntrace", "Already up to date.",
                            "Updating 1a2b..3c4d"},
      test_status        : {NULL, "3/3 passed"},
      comment            : {NULL, "", "note"} ]

NextMerge ==
    \/ \E h \in HostIds, t \in AgentTokens : poll_commands(h, t)
    \/ \E h \in LifecycleHosts, r \in MergeReports : update_status(h, SharedToken, r)

SpecMerge == Init /\ [][NextMerge]_vars

(* ---- the test sub-state: one host, every test-progress report ---- *)

TestProgressReports ==
    {[current |-> n, total |-> n, passed |-> k, running |-> r,
      result |-> x, comment |-> NULL] :
        n \in 0..MaxCount, k \in 0..MaxCount, r \in BOOLEAN, x \in {NULL, "all passed"}}

NextTest ==
    \/ \E h \in LifecycleHosts : poll_commands(h, SharedToken)
    \/ \E h \in LifecycleHosts, c \in LifecycleCommands :
          queue_command(h, AdminSession, AdminCsrf, c)
    \/ \E h \in LifecycleHosts, p \in TestProgressReports :
          update_test_progress(h, SharedToken, p)
    \/ dashboard(AdminSession)

SpecTest == Init /\ [][NextTest]_vars

(* ---- sessions: logins, logouts and the passing of a day ---- *)

\* NIXFLEET_ALLOW_LEGACY_UNSIGNED_SESSION_COOKIE=true: the upgrade setting.
LegacyCfg == [LifecycleCfg EXCEPT !.ALLOW_LEGACY_UNSIGNED_SESSION_COOKIE = TRUE]

Passwords == {"hunter2", "letmein"}

\* The cookies that login has set.
JarCookies == {jar[i] : i \in 1..Len(jar)}

\* The token of the session that login number i created.
IssuedToken(i) == "session-" \o ToString(i)

\* Cookies that were never signed: the bare tokens of the sessions.
RawCookies == {IssuedToken(i) : i \in 1..Len(jar)}

CsrfInputs == {"", AdminCsrf, "csrf-2"}

InitSession == \E config \in {LifecycleCfg, LegacyCfg} : InitWith(config)

NextSession ==
    \/ \E p \in Passwords : login(p)
    \/ \E c \in JarCookies \cup {NULL}, x \in CsrfInputs : logout(get_session_token(c), x)
    \/ \E c \in JarCookies : dashboard(get_session_token(c))
    \/ \E c \in JarCookies \cup RawCookies : list_hosts(get_session_token(c))
    \/ \E d \in SessionTickSteps : SessionTick(d)

SpecSession == InitSession /\ [][NextSession]_vars

(* ---- signed cookies: logins, secret rotations, tampered cookies ---- *)

\* Values of NIXFLEET_SESSION_SECRETS across restarts: a secret is prepended,
\* the old one is retired, and none is configured (which takes dev mode).
SecretEnvs == {"secret-a", "secret-b, secret-a", "secret-b", ""}

\* text with the character at index i replaced by c.
Replace(text, i, c) == SubSeq(text, 1, i - 1) \o c \o SubSeq(text, i + 1, Len(text))

\* The index of the "." between the payload part and the signature part.
PartsDot(cookie) == Find(cookie, ".", 4)

\* The places of a signed cookie that are changed: the ends of the payload part
\* and the ends of the signature part.
TamperedPlaces(cookie) ==
    {4, PartsDot(cookie) - 1, PartsDot(cookie) + 1, Len(cookie)}

\* The characters put in place of character c: its successor in the base64
\* alphabet, and a character that the URL-safe alphabet has not.
Substitutes(c) ==
    {B64Char((B64Value(c) + 1) % 64), "+"} \ {c}

\* Every cookie that differs from a signed cookie in one byte of the payload
\* part or of the signature part, at the places and with the bytes above.
Tampered(cookie) ==
    UNION {{Replace(cookie, i, c) : c \in Substitutes(CharAt(cookie, i))} :
              i \in TamperedPlaces(cookie)}

\* The cookies of the jar that are signed envelopes.
SignedJar == {c \in JarCookies : StartsWith(c, "v1.")}

TamperedJar == UNION {Tampered(c) : c \in SignedJar}

NextCookie ==
    \/ \E p \in Passwords : login(p)
    \/ \E e \in SecretEnvs :
          startup([LifecycleEnv EXCEPT !.SESSION_SECRETS = e, !.DEV_MODE = (e = "")])
    \/ \E t \in {get_session_token(c) : c \in JarCookies \cup TamperedJar} : list_hosts(t)
    \/ \E d \in SessionTickSteps : SessionTick(d)

SpecCookie == Init /\ [][NextCookie]_vars

(* ---- host management: two administrators, requests with and without CSRF token ---- *)

\* Hostnames of POST /api/hosts and ids of the paths: a valid one, one that
\* lower() changes, and one that HOST_ID_PATTERN rejects.
HostNames == {"node-1", "Node-1", "1x"}

\* Bodies of PATCH /api/hosts/{host_id}.
HostUpdates == {[comment |-> "note", test_status |-> NULL],
                [comment |-> NULL, test_status |-> NULL]}

\* What get_session_token makes of the cookie of a request: the token of each
\* cookie that login has set, and None for a request without a cookie.
PresentedTokens == {get_session_token(c) : c \in JarCookies \cup {NULL}}

NextCsrf ==
    \/ \E p \in Passwords : login(p)
    \/ \E t \in PresentedTokens, x \in CsrfInputs : logout(t, x)
    \/ \E t \in PresentedTokens, x \in CsrfInputs, n \in HostNames :
          add_host_manually(t, x, n)
    \/ \E t \in PresentedTokens, h \in HostNames, u \in HostUpdates : update_host(h, t, u)
    \/ \E t \in PresentedTokens, x \in CsrfInputs, h \in LifecycleHosts :
          queue_command(h, t, x, "pull")
    \/ \E t \in PresentedTokens, x \in CsrfInputs, h \in HostNames :
          rotate_host_agent_token(h, t, x)
    \/ \E t \in PresentedTokens, x \in CsrfInputs, h \in HostNames : delete_host(h, t, x)

SpecCsrf == Init /\ [][NextCsrf]_vars

(* ---- lazy expiry: sessions that nobody logs out of ---- *)

NextExpiry ==
    \/ \E p \in Passwords : login(p)
    \/ \E h \in LifecycleHosts : poll_commands(h, SharedToken)
    \/ \E c \in JarCookies : dashboard(get_session_token(c))
    \/ \E c \in JarCookies \cup RawCookies : list_hosts(get_session_token(c))
    \/ \E d \in SessionTickSteps : SessionTick(d)

SpecExpiry == InitWith(LegacyCfg) /\ [][NextExpiry]_vars

(* ---- agent credentials: migration from the shared token to per-host tokens ---- *)

AgentHosts == {"node-1", "node-2"}

\* The environments the service is restarted in: shared mode and
\* auto-provisioning on or off, the hashing secret set or not, and one without
\* shared token.  Development mode is on where startup would refuse otherwise.
AgentEnvs ==
    {[LifecycleEnv EXCEPT !.ALLOW_SHARED_AGENT_TOKEN = shared,
                          !.AUTO_PROVISION_AGENT_TOKENS = auto,
                          !.AGENT_TOKEN_HASH_SECRET = secret,
                          !.DEV_MODE = (secret = "" /\ (auto \/ ~shared))] :
        shared \in BOOLEAN, auto \in BOOLEAN, secret \in {"agent-hash-secret", ""}}
    \cup {[LifecycleEnv EXCEPT !.ALLOW_SHARED_AGENT_TOKEN = FALSE, !.API_TOKEN = ""]}

\* The per-host tokens that responses have carried so far.
MintedTokens == {"agent-token-" \o ToString(i) : i \in 1..minted}

\* Bearer tokens of agent requests: the shared token, none, one that was never
\* issued, and every per-host token issued so far.
AgentCredentials == {SharedToken, "", "stolen-token"} \cup MintedTokens

Registrations == {[current_generation |-> "abc1234", comment |-> NULL]}

AgentProgress == {p \in ProgressReports : ~p.running}

NextAgent ==
    \/ \E h \in AgentHosts, t \in AgentCredentials, r \in Registrations : register_host(h, t, r)
    \/ \E h \in AgentHosts, t \in AgentCredentials : poll_commands(h, t)
    \/ \E h \in LifecycleHosts, t \in AgentCredentials, r \in StatusReports :
          update_status(h, t, r)
    \/ \E h \in LifecycleHosts, t \in AgentCredentials, p \in AgentProgress :
          update_test_progress(h, t, p)
    \/ \E h \in AgentHosts : rotate_host_agent_token(h, AdminSession, AdminCsrf)
    \/ \E h \in AgentHosts : delete_host(h, AdminSession, AdminCsrf)
    \/ \E e \in AgentEnvs : startup(e)

SpecAgent == Init /\ [][NextAgent]_vars

(* ---- restarts: environments with and without the secrets ---- *)

\* The environment of the test suite and those that differ from it in one
\* setting, each with and without development mode; two more ask for TOTP.
StartupEnvs ==
    {[e EXCEPT !.DEV_MODE = dev] :
        e \in {LifecycleEnv,
               [LifecycleEnv EXCEPT !.PASSWORD_HASH = ""],
               [LifecycleEnv EXCEPT !.PASSWORD_HASH = "hunter2"],
               [LifecycleEnv EXCEPT !.SESSION_SECRETS = " ,"],
               [LifecycleEnv EXCEPT !.API_TOKEN = ""],
               [LifecycleEnv EXCEPT !.API_TOKEN = "", !.ALLOW_SHARED_AGENT_TOKEN = FALSE],
               [LifecycleEnv EXCEPT !.AGENT_TOKEN_HASH_SECRET = ""],
               [LifecycleEnv EXCEPT !.AGENT_TOKEN_HASH_SECRET = "",
                                    !.AUTO_PROVISION_AGENT_TOKENS = TRUE],
               [LifecycleEnv EXCEPT !.AGENT_TOKEN_HASH_SECRET = "",
                                    !.ALLOW_SHARED_AGENT_TOKEN = FALSE, !.API_TOKEN = ""]},
        dev \in BOOLEAN}
    \cup {[LifecycleEnv EXCEPT !.REQUIRE_TOTP = TRUE, !.TOTP_SECRET = totp] :
             totp \in {"", "JBSWY3DPEHPK3PXP"}}

\* The server is started and restarted; while it serves, agents poll and the
\* administrator lists the hosts, and sessions expire.
NextStartup ==
    \/ \E e \in StartupEnvs : startup(e)
    \/ serving /\ \E h \in LifecycleHosts, t \in AgentTokens : poll_commands(h, t)
    \/ serving /\ \E t \in SessionCookies : list_hosts(t)
    \/ \E d \in SessionTickSteps : SessionTick(d)

SpecStartup == Init /\ [][NextStartup]_vars

(* ---- requests behind and beside a reverse proxy ---- *)

\* The settings of proxy trust: off, on in two spellings, a word that does not
\* switch it on; no allowlist, an allowlist of one or two proxies with a
\* blank, a long form and a typo, and an allowlist of typos only.
ProxyEnvs ==
    {[LifecycleEnv EXCEPT !.TRUST_PROXY_HEADERS = trust, !.TRUSTED_PROXY_IPS = ips] :
        trust \in {"", "TRUE", "yes", "on"},
        ips \in {"", "10.0.0.1", " 10.0.0.1 ,0:0:0:0:0:0:0:1,proxy", "proxy, "}}

\* Requests from a proxy, from another peer and without transport peer, with
\* and without the two headers.
ProxyRequests ==
    [ client          : {NULL, "10.0.0.1", "10.0.0.9", "::1"},
      x_forwarded_for : {Absent, "", " ", "1.1.1.1", " 1.1.1.1 , 10.0.0.1", " ,1.1.1.1"},
      x_real_ip       : {Absent, "", " ", " 2.2.2.2 "} ]

NextClientIp ==
    \/ \E e \in ProxyEnvs : startup(e)
    \/ \E r \in ProxyRequests : limiter_key(r)

SpecClientIp == Init /\ [][NextClientIp]_vars

(* ---- hosts added on the dashboard and their agents ---- *)

\* Names typed into the add-host form: canonical, with capitals and blanks,
\* and one that is no host id.
AddHostNames == {"node-1", " Node-1 ", "1x"}

NextAddHost ==
    \/ \E x \in CsrfHeaders, n \in AddHostNames : add_host_manually(AdminSession, x, n)
    \/ \E t \in SessionCookies : list_hosts(t)
    \/ \E h \in LifecycleHosts, t \in AgentTokens, r \in Registrations : register_host(h, t, r)
    \/ \E h \in LifecycleHosts, t \in AgentTokens : poll_commands(h, t)
    \/ \E h \in LifecycleHosts, t \in AgentTokens, r \in StatusReports : update_status(h, t, r)
    \/ \E h \in LifecycleHosts :
          update_host(h, AdminSession, [comment |-> "note", test_status |-> NULL])
    \/ \E h \in LifecycleHosts : delete_host(h, AdminSession, AdminCsrf)
    \/ \E d \in TickSteps : Tick(d)

SpecAddHost == Init /\ [][NextAddHost]_vars

(* ---- every operation that publishes, accepted and rejected ---- *)

EventCommands == {"pull", "test", "stop"}

NextEvents ==
    \/ \E s \in SessionCookies, x \in CsrfHeaders, n \in AddHostNames :
          add_host_manually(s, x, n)
    \/ \E h \in LifecycleHosts, t \in AgentTokens, r \in Registrations : register_host(h, t, r)
    \/ \E h \in HostIds, s \in SessionCookies, x \in CsrfHeaders, c \in EventCommands :
          queue_command(h, s, x, c)
    \/ \E h \in LifecycleHosts, t \in AgentTokens, r \in StatusReports : update_status(h, t, r)
    \/ \E h \in LifecycleHosts, t \in AgentTokens, p \in ProgressReports :
          update_test_progress(h, t, p)
    \/ \E d \in TickSteps : Tick(d)

SpecEvents == Init /\ [][NextEvents]_vars

(* ---- event streams: dashboards that subscribe while agents register ---- *)

\* The streams that sse_events has opened.
Streams == 1..Len(streams)

NextSse ==
    \/ sse_events(AdminSession)
    \/ \E q \in Streams : event_generator_start(q)
    \/ \E q \in Streams : event_generator_get(q)
    \/ \E q \in Streams : event_generator_keepalive(q)
    \/ \E q \in Streams, d \in BOOLEAN : event_generator_check(q, d)
    \/ \E q \in Streams : event_generator_cancel(q)
    \/ \E h \in LifecycleHosts, r \in Registrations : register_host(h, SharedToken, r)

\* The store after the agent of one host has registered.
InitSse ==
    /\ hosts = ("node-1" :> RegisteredRow([current_generation |-> "abc1234", comment |-> NULL]))
    /\ command_log = <<>>
    /\ command_log_seq = 0
    /\ sessions = (AdminSession :> [csrf_token |-> AdminCsrf, expires_at |-> SESSION_DURATION])
    /\ cfg = LifecycleCfg
    /\ minted = 0
    /\ now = 0
    /\ last = Response("register", "node-1", 200, NULL, NULL)
    /\ track = [h \in HostIds |-> "polled"]
    /\ live_test = [h \in HostIds |-> FALSE]
    /\ published = <<>>
    /\ jar = <<sign_session_cookie(AdminSession, SESSION_DURATION)>>
    /\ serving = TRUE
    /\ sse_clients = {}
    /\ queues = <<>>
    /\ METRICS = [sse_queue_drops |-> 0]
    /\ streams = <<>>
    /\ broadcasts = <<>>

SpecSse == InitSse /\ [][NextSse]_vars

(* ---- requests of the administrator and of the agent for one host, ---- *)
(* ---- with subscribers listening                                    ---- *)

OrderCommands == {"pull", "stop"}

\* The number of dashboards that listen.
OrderStreams == 1

\* Each handler runs from its first statement to its return without
\* suspending: no await stands before its commit, and the one after it,
\* await broadcast_event, takes a lock that is free whenever a coroutine is
\* resumed and then calls put_nowait.  Requests interleave as whole steps.
NextOrder ==
    \/ Len(streams) < OrderStreams /\ sse_events(AdminSession)
    \/ \E q \in Streams : event_generator_start(q)
    \/ \E q \in Streams : event_generator_get(q)
    \/ \E h \in LifecycleHosts, c \in OrderCommands :
          queue_command(h, AdminSession, AdminCsrf, c)
    \/ \E h \in LifecycleHosts : poll_commands(h, SharedToken)
    \/ \E h \in LifecycleHosts, r \in StatusReports : update_status(h, SharedToken, r)

SpecOrder == InitSse /\ [][NextOrder]_vars

(* ---- the command log of two hosts that come and go ---- *)

\* Two reports that differ in what they write to a log entry.
LogReports ==
    {[status |-> "ok", current_generation |-> NULL, output |-> "done",
      test_status |-> NULL, comment |-> NULL],
     [status |-> "error", current_generation |-> NULL, output |-> "fatal",
      test_status |-> NULL, comment |-> NULL]}

NextLog ==
    \/ \E h \in HostIds : poll_commands(h, SharedToken)
    \/ \E h \in HostIds : queue_command(h, AdminSession, AdminCsrf, "pull")
    \/ \E h \in LifecycleHosts : queue_command(h, AdminSession, AdminCsrf, "stop")
    \/ \E h \in LifecycleHosts, r \in LogReports : update_status(h, SharedToken, r)
    \/ \E h \in LifecycleHosts : delete_host(h, AdminSession, AdminCsrf)
    \/ Tick(COMMAND_TIMEOUT_MINUTES)

SpecLog == Init /\ [][NextLog]_vars

(* ======================================================================= *)
(* Claims about the command lifecycle (specification Spec)                 *)
(* ======================================================================= *)

\* An authenticated poll of host h with bearer token t.
PollStep(h, t) ==
    /\ last'.op = "poll" /\ last'.host = h
    /\ verify_agent_auth_for_host(h, t).ok
    /\ poll_commands(h, t)

\* What the mailbox of host h holds (null for a host without a row).
Mailbox(h) == IF h \in DOMAIN hosts THEN hosts[h].pending_command ELSE NULL

\* A queue_command request for host h that was answered 200.
QueueStep(h, c) ==
    /\ last'.op = "command" /\ last'.code = 200
    /\ last'.host = h /\ last'.command = c
    /\ \E s \in SessionCookies, x \in CsrfHeaders : queue_command(h, s, x, c)

\* C1: after queue_command(h, c) succeeds for c other than stop, with no other
\* operation on h in between, the next authenticated poll(h) returns c; every
\* authenticated poll(h) made while no queue_command for h has succeeded since
\* the previous authenticated poll returns null, so a queued command is
\* returned by at most one poll.
C1_QueuedCommandReturnedOnce ==
    [][\A h \in HostIds, t \in AgentTokens :
          PollStep(h, t) =>
             /\ (track[h] \in Commands \ {"stop"} => last'.command = track[h])
             /\ (track[h] = "polled" => last'.command = NULL)]_vars

\* A poll has just returned the queued command "pull".
C1_Witness ==
    /\ last.op = "poll" /\ last.code = 200 /\ last.command = "pull"
    /\ track[last.host] = "polled"

\* C2: every host has at most one command-log entry whose completed_at is null.
C2_AtMostOneOpenEntry ==
    \A h \in HostIds : Cardinality(OpenEntries(command_log, h)) <= 1

\* C3: a poll is an atomic read-and-clear of the mailbox: it returns exactly
\* the command the mailbox held when the poll began and leaves the mailbox
\* empty, so two polls never return the same queued command and the poll's
\* clear step never erases a command it does not return.
C3_PollIsAtomicExchange ==
    [][\A h \in HostIds, t \in AgentTokens :
          PollStep(h, t) =>
             /\ last'.command = Mailbox(h)
             /\ h \in DOMAIN hosts'
             /\ hosts'[h].pending_command = NULL]_vars

\* A poll returned "test" and left the mailbox empty.
C3_Witness ==
    /\ last.op = "poll" /\ last.code = 200 /\ last.command = "test"
    /\ hosts[last.host].pending_command = NULL

\* C4: queue_command(h, stop) that succeeds leaves the mailbox empty and
\* test_running false and appends no command-log entry, from whatever state
\* the host was in; and no poll ever returns stop.
C4_StopOverrides ==
    [][/\ \A h \in HostIds :
             QueueStep(h, "stop") =>
                /\ hosts'[h].pending_command = NULL
                /\ hosts'[h].test_running = 0
                /\ command_log' = command_log
       /\ (last'.op = "poll" => last'.command # "stop")
       /\ \A h \in DOMAIN hosts' : hosts'[h].pending_command # "stop"]_vars

\* stop has just succeeded for a host whose delivered command is still open in
\* the log (it was in flight) and for which a test had been queued.
C4_Witness ==
    /\ last.op = "command" /\ last.code = 200 /\ last.command = "stop"
    /\ OpenEntries(command_log, last.host) # {}
    /\ \E i \in 1..Len(command_log) : command_log[i].command = "test"
    /\ hosts[last.host].test_running = 0

\* C5: a command that has stayed queued for longer than the staleness window
\* (5 minutes) is not delivered to a poll that arrives after the window, and
\* the clearing of stale commands leaves the mailbox of every stale host empty
\* and neither appends nor modifies a command-log entry.
C5_StaleNotDelivered ==
    [][/\ \A h \in HostIds, t \in AgentTokens :
             (PollStep(h, t) /\ h \in DOMAIN hosts /\ Stale(hosts[h]))
                => last'.command = NULL
       /\ (last'.op = "dashboard" /\ last'.code = 200 /\ dashboard(AdminSession)) =>
             /\ command_log' = command_log
             /\ \A h \in StaleHosts : hosts'[h].pending_command = NULL]_vars

\* C6: the mailbox is single-slot and last-write-wins: a successful
\* queue_command(h, b), b other than stop, leaves b in the mailbox whatever it
\* held, and appends nothing to the log; a poll that delivers appends exactly
\* one entry, for the command the mailbox held, and a poll that returns null
\* appends none.
C6_LastWriteWins ==
    [][\A h \in HostIds :
          /\ \A b \in Commands \ {"stop"} :
                QueueStep(h, b) =>
                   /\ hosts'[h].pending_command = b
                   /\ command_log' = command_log
          /\ \A t \in AgentTokens :
                PollStep(h, t) =>
                   IF Mailbox(h) # NULL
                   THEN /\ Len(command_log') = Len(command_log) + 1
                        /\ SubSeq(command_log', 1, Len(command_log)) = command_log
                        /\ command_log'[Len(command_log')].host_id = h
                        /\ command_log'[Len(command_log')].command = Mailbox(h)
                        /\ command_log'[Len(command_log')].completed_at = NoTime
                        /\ last'.command = Mailbox(h)
                   ELSE command_log' = command_log]_vars

\* "test" was queued and then "pull" over it before any poll: the poll has
\* returned "pull", the log holds that one entry, and the test state set by the
\* overwritten "test" (running, counters 0) is still there.
C6_Witness ==
    /\ last.op = "poll" /\ last.code = 200 /\ last.command = "pull"
    /\ Len(command_log) = 1 /\ command_log[1].command = "pull"
    /\ hosts[last.host].test_running = 1
    /\ hosts[last.host].test_current = 0

(* ======================================================================= *)
(* Claims about status reports (specifications SpecFleet and SpecMerge)    *)
(* ======================================================================= *)

\* An authenticated status report r for host h.
StatusStep(h, r) ==
    /\ last'.op = "status" /\ last'.host = h
    /\ \E t \in AgentTokens :
          verify_agent_auth_for_host(h, t).ok /\ update_status(h, t, r)

\* C7: report_status(h) closes exactly one command-log entry, an open entry of
\* h than which no open entry of h is newer, setting its status, output and
\* completed_at; every other entry (older open entries of h, entries of other
\* hosts) is unchanged; and with no open entry of h the log is unchanged.
C7_ReportClosesNewestOpen ==
    [][\A h \in HostIds, r \in StatusReports :
          StatusStep(h, r) =>
             IF OpenEntries(command_log, h) = {}
             THEN command_log' = command_log
             ELSE \E i \in OpenEntries(command_log, h) :
                     /\ \A j \in OpenEntries(command_log, h) :
                           command_log[j].created_at <= command_log[i].created_at
                     /\ Len(command_log') = Len(command_log)
                     /\ \A j \in (1..Len(command_log)) \ {i} :
                           command_log'[j] = command_log[j]
                     /\ command_log'[i].status = r.status
                     /\ command_log'[i].output = r.output
                     /\ command_log'[i].completed_at # NoTime
                     /\ command_log'[i].id = command_log[i].id
                     /\ command_log'[i].host_id = h
                     /\ command_log'[i].command = command_log[i].command
                     /\ command_log'[i].created_at = command_log[i].created_at]_vars

\* A report has closed the newer of two entries of one host and left the older
\* one open.
C7_Witness ==
    /\ last.op = "status" /\ last.code = 200
    /\ \E i, j \in 1..Len(command_log) :
          /\ command_log[i].host_id = last.host
          /\ command_log[j].host_id = last.host
          /\ command_log[i].created_at < command_log[j].created_at
          /\ command_log[i].completed_at = NoTime
          /\ command_log[j].completed_at # NoTime

Present(value) == value # NULL /\ value # ""

\* C8 (amended): report_status merges into the host row: status and every
\* optional field present in the report overwrite the stored value; an absent
\* current_generation or test_status keeps the stored value; a comment that is
\* absent or empty is replaced by one generated from a non-empty output (its
\* first line, cut to 100 characters, when status is error; "Already up to
\* date" or "Pull successful" when the output contains the matching marker)
\* and otherwise an absent comment keeps the stored value; no other host row
\* changes.
C8_MergeWithGeneratedComment ==
    [][\A h \in HostIds, r \in MergeReports :
          (h \in DOMAIN hosts /\ StatusStep(h, r)) =>
             /\ hosts'[h].status = r.status
             /\ hosts'[h].current_generation =
                   (IF r.current_generation # NULL THEN r.current_generation
                    ELSE hosts[h].current_generation)
             /\ hosts'[h].test_status =
                   (IF r.test_status # NULL THEN r.test_status
                    ELSE hosts[h].test_status)
             /\ hosts'[h].comment =
                   (IF Present(r.comment) THEN r.comment
                    ELSE IF Present(r.output) /\ r.status = "error"
                    THEN Truncate(FirstLine(r.output), 100)
                    ELSE IF Present(r.output)
                            /\ (\/ Contains(r.output, "Already up to date")
                                \/ Contains(r.output, "Already up-to-date"))
                    THEN "Already up to date"
                    ELSE IF Present(r.output) /\ Contains(r.output, "Updating")
                    THEN "Pull successful"
                    ELSE IF r.comment = NULL THEN hosts[h].comment
                    ELSE r.comment)
             /\ \A g \in DOMAIN hosts \ {h} : hosts'[g] = hosts[g]]_vars

\* A report without a comment has replaced a stored comment by the first line
\* of its output, and kept the stored generation.
C8_Witness ==
    /\ last.host \in DOMAIN hosts
    /\ last.op = "status" /\ last.code = 200
    /\ hosts[last.host].comment = "fatal: no route"
    /\ hosts[last.host].status = "error"
    /\ hosts[last.host].current_generation = "gen-2"
    /\ hosts[last.host].test_status = "3/3 passed"

\* C8 as stated: every field present overwrites, and every optional field
\* absent from the report (current_generation, test_status, comment) keeps its
\* stored value.
C8_AbsentFieldsKeepStoredValue ==
    [][\A h \in HostIds, r \in MergeReports :
          (h \in DOMAIN hosts /\ StatusStep(h, r)) =>
             /\ hosts'[h].status = r.status
             /\ hosts'[h].current_generation =
                   (IF r.current_generation # NULL THEN r.current_generation
                    ELSE hosts[h].current_generation)
             /\ hosts'[h].test_status =
                   (IF r.test_status # NULL THEN r.test_status
                    ELSE hosts[h].test_status)
             /\ hosts'[h].comment =
                   (IF r.comment # NULL THEN r.comment ELSE hosts[h].comment)]_vars

(* ======================================================================= *)
(* Claims about the test sub-state (specification SpecTest)                *)
(* ======================================================================= *)

\* An authenticated test-progress report p for a host h that has a row.
ProgressStep(h, p) ==
    /\ h \in DOMAIN hosts
    /\ last'.op = "test-progress" /\ last'.host = h
    /\ \E t \in AgentTokens :
          verify_agent_auth_for_host(h, t).ok /\ update_test_progress(h, t, p)

Counters(row) == <<row.test_current, row.test_total, row.test_passed_count>>

\* C9: queueing test sets test_running with counters 0, 0, 0 and result null;
\* a test-progress report with running=true stores its counters, leaves the
\* mailbox and the result unchanged and leaves test_running true; a report with
\* running=false sets test_running false, stores its counters and result and
\* leaves the mailbox empty.
C9_TestSubState ==
    [][\A h \in HostIds :
          /\ QueueStep(h, "test") =>
                /\ hosts'[h].test_running = 1
                /\ Counters(hosts'[h]) = <<0, 0, 0>>
                /\ hosts'[h].test_result = NULL
                /\ hosts'[h].pending_command = "test"
          /\ \A p \in TestProgressReports :
                ProgressStep(h, p) =>
                   /\ Counters(hosts'[h]) = <<p.current, p.total, p.passed>>
                   /\ IF p.running
                      THEN /\ hosts'[h].test_running = 1
                           /\ hosts'[h].pending_command = hosts[h].pending_command
                           /\ hosts'[h].test_result = hosts[h].test_result
                      ELSE /\ hosts'[h].test_running = 0
                           /\ hosts'[h].test_result = p.result
                           /\ hosts'[h].pending_command = NULL]_vars

\* A delivered test has been finished by a running=false report that carried
\* counters and a result.
C9_Witness ==
    /\ last.host \in DOMAIN hosts
    /\ last.op = "test-progress" /\ last.code = 200
    /\ \E i \in 1..Len(command_log) : command_log[i].command = "test"
    /\ hosts[last.host].test_running = 0
    /\ hosts[last.host].test_result = "all passed"
    /\ Counters(hosts[last.host]) = <<MaxCount, MaxCount, MaxCount>>
    /\ hosts[last.host].pending_command = NULL

\* C10 (amended): a poll that delivers a just queued test leaves the host
\* test_running with counters 0, 0, 0; after a test-progress report with
\* running=false and passed equal to total, the computed test_passed of the
\* host is true when total is greater than 0 and None when total is 0.
C10_TestPassedForPositiveTotal ==
    [][\A h \in HostIds :
          /\ \A t \in AgentTokens :
                (PollStep(h, t) /\ track[h] = "test") =>
                   /\ last'.command = "test"
                   /\ hosts'[h].test_running = 1
                   /\ Counters(hosts'[h]) = <<0, 0, 0>>
          /\ \A p \in TestProgressReports :
                (ProgressStep(h, p) /\ ~p.running /\ p.passed = p.total) =>
                   test_passed(hosts'[h]) = (IF p.total > 0 THEN "True" ELSE "None")]_vars

\* A delivered test has been finished by a report with passed = total = 0:
\* the computed test_passed is None.
C10_Witness ==
    /\ last.host \in DOMAIN hosts
    /\ last.op = "test-progress" /\ last.code = 200
    /\ \E i \in 1..Len(command_log) : command_log[i].command = "test"
    /\ hosts[last.host].test_running = 0
    /\ hosts[last.host].test_total = 0
    /\ hosts[last.host].test_passed_count = 0
    /\ test_passed(hosts[last.host]) = "None"

\* C10 as stated: after a running=false report with passed equal to total the
\* computed test_passed is true for every value of total, 0 included.
C10_TestPassedForEveryTotal ==
    [][\A h \in HostIds, p \in TestProgressReports :
          (ProgressStep(h, p) /\ ~p.running /\ p.passed = p.total) =>
             test_passed(hosts'[h]) = "True"]_vars

(* ======================================================================= *)
(* Claims about the consistency of the lifecycle (specification Spec)      *)
(* ======================================================================= *)

\* C11: in every reachable state test_running is true for a host only while
\* the command most recently queued for it is test and that test has been
\* neither completed by a running=false report, stopped, nor cleared as stale.
C11_TestRunningOnlyWhileTestLive ==
    \A h \in DOMAIN hosts : hosts[h].test_running = 1 => live_test[h]

\* An authenticated queue_command request (valid session and CSRF token).
AuthorizedQueue(h, c) ==
    /\ last'.op = "command" /\ last'.host = h
    /\ \E s \in SessionCookies, x \in CsrfHeaders :
          /\ require_auth(s) /\ verify_csrf_token(s, x)
          /\ queue_command(h, s, x, c)

\* C12: queue_command, for any command (stop included), for a host id that has
\* no row is answered NotFound (404), changes no stored state and publishes no
\* event.
C12_UnknownHostNotFound ==
    [][\A h \in HostIds, c \in Commands :
          (h \notin DOMAIN hosts /\ AuthorizedQueue(h, c)) =>
             /\ last'.code = 404
             /\ hosts' = hosts /\ sessions' = sessions
             /\ command_log' = command_log /\ command_log_seq' = command_log_seq
             /\ published' = <<>>]_vars

\* An authorized queue_command for a host without a row has been answered 404.
C12_Witness ==
    /\ last.op = "command" /\ last.code = 404
    /\ last.host \notin DOMAIN hosts
    /\ published = <<>>

(* ======================================================================= *)
(* Claims about sessions (specifications SpecSession, SpecExpiry)          *)
(* ======================================================================= *)

\* A dashboard request (the page or the host list) that presents cookie c.
CookieRequest(c) ==
    /\ last'.op \in {"dashboard", "hosts"}
    /\ \/ dashboard(get_session_token(c))
       \/ list_hosts(get_session_token(c))

\* The session row of a token is in the store and its expiry has not passed.
RowLive(token) == token \in DOMAIN sessions /\ now <= sessions[token].expires_at

\* C13 as stated: a request is authenticated only if its cookie passes
\* signature verification and the session row exists and is unexpired.
C13_Original ==
    [][\A c \in JarCookies \cup RawCookies :
          (CookieRequest(c) /\ last'.code = 200) =>
             /\ unsign_session_cookie(c) # NULL
             /\ RowLive(unsign_session_cookie(c))]_vars

\* C13 (amended): a dashboard request is authenticated only if its cookie
\* passes signature verification, or is an unsigned cookie while legacy
\* unsigned cookies are allowed, AND the session row exists and is unexpired;
\* once the row of a session is gone it stays gone, and every request that
\* presents the session's cookie is rejected, even while the signature is valid
\* and the expiry of the envelope has not passed.
C13_AuthenticatedOnlyWithLiveRow ==
    [][/\ \A c \in JarCookies \cup RawCookies :
            /\ (CookieRequest(c) /\ last'.code = 200) =>
                  /\ \/ unsign_session_cookie(c) # NULL
                     \/ /\ cfg.ALLOW_LEGACY_UNSIGNED_SESSION_COOKIE
                        /\ ~StartsWith(c, "v1.")
                  /\ RowLive(get_session_token(c))
            /\ (CookieRequest(c) /\ get_session_token(c) \notin DOMAIN sessions) =>
                  last'.code = IF last'.op = "dashboard" THEN 302 ELSE 401
      /\ \A i \in 1..Len(jar) :
            IssuedToken(i) \notin DOMAIN sessions => IssuedToken(i) \notin DOMAIN sessions'
     ]_vars

\* The only cookie ever set is validly signed and unexpired, its session has
\* been logged out of, and the dashboard has sent the browser to the login page.
C13_Witness ==
    /\ last.op = "dashboard" /\ last.code = 302
    /\ cfg = LifecycleCfg /\ Len(jar) = 1
    /\ unsign_session_cookie(jar[1]) = AdminSession
    /\ AdminSession \notin DOMAIN sessions

\* A request for the host list whose cookie carries session token t: require_auth
\* hands t to verify_session.
VerifyStep(t) ==
    /\ last'.op = "hosts"
    /\ list_hosts(t)

\* What a step leaves of the store besides the sessions.
StoreUntouched ==
    /\ hosts' = hosts /\ command_log' = command_log
    /\ command_log_seq' = command_log_seq

\* C14: verify on a session past its expiry fails and deletes the row, on a
\* missing row it fails, on an unexpired row it succeeds, the last two without
\* changing the store; a row that is gone stays gone, so every later verify of
\* the token fails as well.
C14_LazyExpiry ==
    [][/\ \A i \in 1..Len(jar) :
            LET t == IssuedToken(i)
            IN  VerifyStep(t) =>
                   IF t \notin DOMAIN sessions
                   THEN last'.code = 401 /\ sessions' = sessions /\ StoreUntouched
                   ELSE IF now > sessions[t].expires_at
                   THEN /\ last'.code = 401
                        /\ t \notin DOMAIN sessions'
                        /\ \A u \in DOMAIN sessions \ {t} :
                              u \in DOMAIN sessions' /\ sessions'[u] = sessions[u]
                        /\ StoreUntouched
                   ELSE last'.code = 200 /\ sessions' = sessions /\ StoreUntouched
       /\ \A i \in 1..Len(jar) :
            IssuedToken(i) \notin DOMAIN sessions => IssuedToken(i) \notin DOMAIN sessions'
     ]_vars

\* Nobody has logged out, the row of the first session is gone and the request
\* that carried its token was answered 401.
C14_Witness ==
    /\ last.op = "hosts" /\ last.code = 401
    /\ now > SESSION_DURATION
    /\ AdminSession \notin DOMAIN sessions

(* ======================================================================= *)
(* Claims about signed cookies (specification SpecCookie)                  *)
(* ======================================================================= *)

\* Session tokens as secrets.token_urlsafe makes them: letters, digits, "-", "_".
SampleTokens == {"session-1", "Zk3-_x", "7"}

\* Expiries in the future: the next minute, and a session's lifetime from now.
FutureExpiries == {now + 1, now + SESSION_DURATION}

\* C15: for every session token and every configured (non-empty) list of
\* secrets, unsign(sign(token, expiry)) returns the token when the expiry is in
\* the future.
C15_SignThenUnsign ==
    cfg.SESSION_SECRETS # <<>> =>
        \A t \in SampleTokens, e \in FutureExpiries :
            unsign_session_cookie(sign_session_cookie(t, e)) = t

\* After a restart that prepended a secret, login has signed a cookie and
\* unsign returns its token.
C15_Witness ==
    /\ Len(cfg.SESSION_SECRETS) = 2
    /\ Len(jar) = 2
    /\ jar[2] = sign_session_cookie(IssuedToken(2), sessions[IssuedToken(2)].expires_at)
    /\ unsign_session_cookie(jar[2]) = IssuedToken(2)

\* C16: a cookie that differs in one byte of the payload part or of the
\* signature part from a validly signed cookie is rejected by unsign, and a
\* request that carries it is not authenticated.
C16_TamperedCookieRejected ==
    [][\A m \in TamperedJar :
          /\ unsign_session_cookie(m) = NULL
          /\ (last'.op = "hosts" /\ list_hosts(get_session_token(m))) => last'.code = 401
     ]_vars

\* The envelope that the payload part of a signed cookie holds.
EnvelopeOf(cookie) ==
    json_loads(Utf8Decode(_b64url_decode(SubSeq(cookie, 4, PartsDot(cookie) - 1)).bytes))

\* Cookie is the envelope it holds, signed with secret.
SignedUnder(cookie, secret) ==
    LET envelope == EnvelopeOf(cookie)
    IN  cookie = SignedEnvelope(secret, [v |-> 1, t |-> envelope.t, exp |-> envelope.exp])

\* Every secret that a restart configures.
KnownSecrets == UNION {{ParseSecrets(e)[i] : i \in 1..Len(ParseSecrets(e))} : e \in SecretEnvs}

Configured(secret) ==
    \E i \in 1..Len(cfg.SESSION_SECRETS) : cfg.SESSION_SECRETS[i] = secret

\* C17: after a restart, a cookie signed while secret s was the first of the
\* list is accepted by unsign (until its envelope expires) as long as s is
\* anywhere in the configured list, and rejected when s is in the list no
\* more; login signs a new cookie with the first secret of the list.
C17_RotationKeepsCookies ==
    [][/\ last.op = "startup" =>
            \A i \in 1..Len(jar) :
                LET accepted == unsign_session_cookie(jar[i])
                IN  \A s \in KnownSecrets :
                        (StartsWith(jar[i], "v1.") /\ SignedUnder(jar[i], s)) =>
                            IF ~Configured(s) THEN accepted = NULL
                            ELSE Timestamp(now) <= EnvelopeOf(jar[i]).exp =>
                                    accepted = IssuedToken(i)
       /\ (last'.op = "login" /\ Len(jar') = Len(jar) + 1 /\ cfg.SESSION_SECRETS # <<>>) =>
            jar'[Len(jar')] =
                SignedEnvelope(cfg.SESSION_SECRETS[1],
                               [v |-> 1, t |-> IssuedToken(Len(jar')),
                                exp |-> Timestamp(now + SESSION_DURATION)])
     ]_vars

\* A secret has been prepended: the cookie signed under the old secret is still
\* accepted, and the cookie of a login after the restart is signed with the new one.
C17_Witness ==
    /\ last.op = "startup"
    /\ cfg.SESSION_SECRETS = <<"secret-b", "secret-a">>
    /\ Len(jar) = 2
    /\ SignedUnder(jar[1], "secret-a") /\ unsign_session_cookie(jar[1]) = IssuedToken(1)
    /\ SignedUnder(jar[2], "secret-b") /\ unsign_session_cookie(jar[2]) = IssuedToken(2)

\* C18: unsign rejects every signed envelope whose exp is less than or equal
\* to the current time, exp equal to now included, whatever its signature; and
\* it rejects every signed envelope when no secret is configured.
C18_ExpiredEnvelopeRejected ==
    \A c \in SignedJar :
        (EnvelopeOf(c).exp <= Timestamp(now) \/ cfg.SESSION_SECRETS = <<>>) =>
            unsign_session_cookie(c) = NULL

(* ======================================================================= *)
(* Claims about CSRF protection (specification SpecCsrf)                   *)
(* ======================================================================= *)

\* A request of one of the operations that change stored state, sent with the
\* cookie of session t and with x as its CSRF token.
MutatingRequest(t, x) ==
    \/ /\ last'.op = "add_host"
       /\ \E n \in HostNames : add_host_manually(t, x, n)
    \/ /\ last'.op = "update_host"
       /\ \E h \in HostNames, u \in HostUpdates : update_host(h, t, u)
    \/ /\ last'.op = "command"
       /\ \E h \in LifecycleHosts : queue_command(h, t, x, "pull")
    \/ /\ last'.op = "delete_host"
       /\ \E h \in HostNames : delete_host(h, t, x)
    \/ /\ last'.op = "rotate"
       /\ \E h \in HostNames : rotate_host_agent_token(h, t, x)
    \/ /\ last'.op = "logout"
       /\ logout(t, x)

\* C19: a request of a session-authenticated operation that changes stored
\* state (add host, update host metadata, queue_command, delete host,
\* rotate_agent_token, logout) that does not carry the CSRF token paired with
\* its session is rejected and leaves the store unchanged.
C19_MutationsNeedCsrf ==
    [][\A t \in PresentedTokens \ {NULL}, x \in CsrfInputs :
          (t \in DOMAIN sessions /\ x # sessions[t].csrf_token /\ MutatingRequest(t, x)) =>
             /\ last'.code \in {400, 401, 403}
             /\ hosts' = hosts /\ sessions' = sessions
             /\ command_log' = command_log /\ command_log_seq' = command_log_seq
     ]_vars

\* Session tokens handed to verify_csrf_token: none, and every token that
\* create_session makes, with or without a row.
CsrfTokenInputs == {NULL} \cup {IssuedToken(i) : i \in 1..MaxSessions}

\* C20: verify_csrf(session_token, supplied) is true only when both inputs are
\* non-empty, a row for session_token exists and supplied equals the csrf_token
\* of that row; a missing input, a missing row and the CSRF token of another
\* session yield false.
C20_VerifyCsrf ==
    \A t \in CsrfTokenInputs, x \in CsrfInputs :
        /\ verify_csrf_token(t, x) =>
              /\ t # NULL /\ x # ""
              /\ t \in DOMAIN sessions
              /\ x = sessions[t].csrf_token
        /\ (t = NULL \/ x = "" \/ t \notin DOMAIN sessions) => ~verify_csrf_token(t, x)
        /\ \A u \in DOMAIN sessions \ {t} :
              (t \in DOMAIN sessions /\ sessions[u].csrf_token # sessions[t].csrf_token) =>
                  ~verify_csrf_token(t, sessions[u].csrf_token)

\* Two sessions are open, each with its own CSRF token, and a delete request
\* has been refused for its CSRF token.
C20_Witness ==
    /\ last.op = "delete_host" /\ last.code = 403
    /\ DOMAIN sessions = {IssuedToken(1), IssuedToken(2)}
    /\ ~verify_csrf_token(IssuedToken(1), sessions[IssuedToken(2)].csrf_token)
    /\ verify_csrf_token(IssuedToken(2), sessions[IssuedToken(2)].csrf_token)

(* ======================================================================= *)
(* Claims about agent credentials (specification SpecAgent)                *)
(* ======================================================================= *)

\* The per-host hash of host h, null for a host without a row.
StoredHash(h) == IF h \in DOMAIN hosts THEN hosts[h].agent_token_hash ELSE NULL

\* C21: verify_agent_auth_for_host fails for an empty token; for a host with a
\* per-host hash it succeeds with used_shared false when the keyed hash of the
\* token equals the stored hash, otherwise with used_shared true when shared
\* mode is on, a shared token is configured and the token equals it, and fails
\* otherwise; for a host without hash or without row only the shared token
\* succeeds.
C21_VerifyForHost ==
    \A h \in AgentHosts, t \in AgentCredentials :
        LET shared == cfg.ALLOW_SHARED_AGENT_TOKEN /\ cfg.API_TOKEN # "" /\ t = cfg.API_TOKEN
            result == verify_agent_auth_for_host(h, t)
            fail   == [ok |-> FALSE, used_shared |-> FALSE]
        IN  IF t = "" THEN result = fail
            ELSE IF StoredHash(h) # NULL /\ StoredHash(h) = hash_agent_token(t)
            THEN result = [ok |-> TRUE, used_shared |-> FALSE]
            ELSE IF shared THEN result = [ok |-> TRUE, used_shared |-> TRUE]
            ELSE result = fail

\* A host with a per-host hash has polled, and both its own token and the
\* shared token are accepted for it, the second as the shared one.
C21_Witness ==
    /\ last.op = "poll" /\ last.code = 200
    /\ StoredHash(last.host) # NULL
    /\ verify_agent_auth_for_host(last.host, SharedToken).used_shared
    /\ \E t \in MintedTokens :
          verify_agent_auth_for_host(last.host, t) = [ok |-> TRUE, used_shared |-> FALSE]
    /\ \E h \in AgentHosts \ {last.host} :
          h \in DOMAIN hosts /\ ~verify_agent_auth_for_host(h, "agent-token-1").ok

\* A register or a poll of host h that presents the shared token while shared
\* mode accepts it and h has no per-host hash.
SharedTokenStep(h) ==
    /\ last'.host = h /\ last'.op \in {"register", "poll"}
    /\ cfg.ALLOW_SHARED_AGENT_TOKEN /\ cfg.API_TOKEN = SharedToken
    /\ StoredHash(h) = NULL
    /\ \/ last'.op = "poll" /\ poll_commands(h, SharedToken)
       \/ last'.op = "register" /\ \E r \in Registrations : register_host(h, SharedToken, r)

\* The response carries a fresh per-host token, and the store its keyed hash.
Minted(h) ==
    /\ last'.code = 200
    /\ last'.agent_token # NULL
    /\ last'.agent_token \notin MintedTokens \cup {SharedToken}
    /\ hosts'[h].agent_token_hash # NULL

\* C22 as stated: with auto-provisioning enabled, a register or a poll that the
\* shared token authenticates for a host without per-host hash mints a
\* per-host token and returns it in that response.
C22_Original ==
    [][\A h \in AgentHosts :
          (cfg.AUTO_PROVISION_AGENT_TOKENS /\ SharedTokenStep(h)) => Minted(h)]_vars

\* C22, amended: with auto-provisioning enabled and the hashing secret
\* configured, such a register or poll mints a per-host token and returns it
\* in that response; a poll that presents only that token is then accepted,
\* not as the shared token; and while shared mode is disabled a poll that
\* presents the shared token is answered 401.
C22_AutoProvision ==
    [][/\ (last.op \in {"register", "poll"} /\ last.agent_token # NULL) =>
            verify_agent_auth_for_host(last.host, last.agent_token)
                = [ok |-> TRUE, used_shared |-> FALSE]
       /\ \A h \in AgentHosts :
            /\ (/\ cfg.AUTO_PROVISION_AGENT_TOKENS
                /\ cfg.AGENT_TOKEN_HASH_SECRET # ""
                /\ SharedTokenStep(h)) => Minted(h)
            /\ (/\ ~cfg.ALLOW_SHARED_AGENT_TOKEN
                /\ last'.op = "poll" /\ last'.host = h
                /\ poll_commands(h, SharedToken)) => last'.code = 401
      ]_vars

\* Shared mode is off, and a poll of a host with a per-host hash was answered
\* 401 although the host's own token is accepted.
C22_Witness ==
    /\ ~cfg.ALLOW_SHARED_AGENT_TOKEN
    /\ last.op = "poll" /\ last.code = 401
    /\ StoredHash(last.host) # NULL
    /\ verify_agent_auth_for_host(last.host, "agent-token-1").ok

\* Every value secrets.token_urlsafe has returned or returns next.
RawTokens == {"agent-token-" \o ToString(i) : i \in 1..(minted + 1)}

\* The text columns of the store.
TextColumns(h) ==
    {hosts[h].agent_token_hash, hosts[h].status, hosts[h].pending_command, hosts[h].comment,
     hosts[h].test_status, hosts[h].current_generation, hosts[h].test_result}

\* C23: a response carries a raw per-host token only when its operation
\* (register, poll or rotation) has minted that token in the same step, so no
\* later response carries it again; and no column of the store holds a raw
\* token: a per-host hash is the keyed hash of a minted token.
C23_RawTokenOnlyAtIssuance ==
    [][/\ \A h \in DOMAIN hosts :
            /\ TextColumns(h) \cap RawTokens = {}
            /\ hosts[h].agent_token_hash # NULL =>
                  \E t \in RawTokens :
                      hosts[h].agent_token_hash = "hmac(agent-hash-secret," \o t \o ")"
       /\ last'.agent_token # NULL =>
            /\ last'.op \in {"register", "poll", "rotate"}
            /\ minted' = minted + 1
            /\ last'.agent_token = "agent-token-" \o ToString(minted')
            /\ last'.agent_token \notin MintedTokens
      ]_vars

\* A per-host token was minted, and a later poll that it authenticates was
\* answered without a token.
C23_Witness ==
    /\ minted >= 1
    /\ ~cfg.ALLOW_SHARED_AGENT_TOKEN
    /\ last.op = "poll" /\ last.code = 200 /\ last.agent_token = NULL
    /\ StoredHash(last.host) = hash_agent_token("agent-token-1")

\* A request of agent operation op for host h with bearer token t.
AgentRequest(op, h, t) ==
    /\ last'.op = op /\ last'.host = h
    /\ \/ op = "register" /\ \E r \in Registrations : register_host(h, t, r)
       \/ op = "poll" /\ poll_commands(h, t)
       \/ op = "status" /\ \E r \in StatusReports : update_status(h, t, r)
       \/ op = "test-progress" /\ \E p \in AgentProgress : update_test_progress(h, t, p)

\* C24: an agent request whose authentication fails is answered 401 with
\* nothing else in the response and changes nothing in the store, whether the
\* host has a row or not and whether the row has a per-host hash or not; the
\* response is determined by the operation and the host id of the request.
C24_AuthFailureUniform ==
    [][\A op \in {"register", "poll", "status", "test-progress"}, h \in AgentHosts :
          (last'.op = op /\ last'.host = h) =>
              \A t \in AgentCredentials :
                  (~verify_agent_auth_for_host(h, t).ok /\ AgentRequest(op, h, t)) =>
                      /\ last' = [op |-> op, host |-> h, code |-> 401, command |-> NULL,
                                  agent_token |-> NULL]
                      /\ published' = <<>>
                      /\ UNCHANGED <<hosts, command_log, command_log_seq, sessions, minted>>
      ]_vars

\* A request for a host without a row was refused while another host has a
\* row with a per-host hash; the third state of affairs, a row without hash,
\* is reached by the same requests.
C24_Witness ==
    /\ last.code = 401 /\ last.op = "status"
    /\ last.host \notin DOMAIN hosts
    /\ \E h \in DOMAIN hosts : hosts[h].agent_token_hash # NULL

(* ======================================================================= *)
(* Claims about the event streams (specification SpecSse)                  *)
(* ======================================================================= *)

\* C25: a handler that publishes an event while N queues are subscribed, k of
\* them full, appends the event to each of the other N - k queues, leaves the
\* full ones as they are, adds exactly k to the drop counter, and leaves the
\* set of subscribers as it is.
C25_BroadcastToSubscribers ==
    [][/\ (/\ sse_clients # {}
            /\ \E h \in LifecycleHosts, r \in Registrations : register_host(h, SharedToken, r)) =>
            Len(broadcasts') = Len(broadcasts) + 1
       /\ Len(broadcasts') # Len(broadcasts) =>
            LET event == broadcasts'[Len(broadcasts')]
                full  == {q \in sse_clients : Len(queues[q]) >= MaxMailbox}
            IN  /\ Len(broadcasts') = Len(broadcasts) + 1
                /\ published' = <<event>>
                /\ \A q \in sse_clients \ full :
                      queues'[q] = Append(queues[q], [seq |-> Len(broadcasts'), event |-> event])
                /\ \A q \in full \cup (DOMAIN queues \ sse_clients) : queues'[q] = queues[q]
                /\ METRICS'.sse_queue_drops = METRICS.sse_queue_drops + Cardinality(full)
                /\ sse_clients' = sse_clients
                /\ DOMAIN queues' = DOMAIN queues
      ]_vars

\* A registration was published to two subscribers: the queue of one was full
\* and does not hold the event, the other holds it, and a drop was counted.
C25_Witness ==
    /\ last.op = "register" /\ last.code = 200
    /\ Cardinality(sse_clients) = 2
    /\ METRICS.sse_queue_drops = 1
    /\ \E q \in sse_clients :
          /\ Len(queues[q]) = MaxMailbox
          /\ queues[q][MaxMailbox].seq < Len(broadcasts)
    /\ \E q \in sse_clients :
          /\ queues[q] # <<>>
          /\ queues[q][Len(queues[q])].seq = Len(broadcasts)

\* Stream q yields the event that is first in its queue.
Yields(q) ==
    /\ q \in Streams /\ q \in DOMAIN queues
    /\ streams[q].pc = "waiting" /\ streams'[q].pc = "checking"
    /\ queues[q] # <<>> /\ queues'[q] = Tail(queues[q])

\* C26: every event a stream yields was published while its queue was
\* subscribed and is the event published under its number, and that number is
\* greater than the number of every event the stream has yielded before: the
\* events a stream yields are a subsequence of the publications during its
\* subscription, in their order and without duplicate.
C26_OrderedAtMostOnce ==
    [][\A q \in Streams :
          /\ streams'[q].yielded >= streams[q].yielded
          /\ streams'[q].yielded # streams[q].yielded => Yields(q)
          /\ Yields(q) =>
                LET n == streams'[q].yielded
                IN  /\ n > streams[q].yielded
                    /\ n \in (streams[q].joined + 1)..Len(broadcasts)
                    /\ q \in sse_clients
                    /\ Head(queues[q]) = [seq |-> n, event |-> broadcasts[n]]
      ]_vars

\* A stream has yielded an event and yields next an event published later,
\* one in between was dropped; another stream subscribed after the first
\* publication, has yielded an event and has ended.
C26_Witness ==
    \E q, p \in Streams :
        /\ streams[q].yielded > 0
        /\ q \in sse_clients /\ queues[q] # <<>>
        /\ Head(queues[q]).seq > streams[q].yielded + 1
        /\ p # q
        /\ streams[p].pc \in {"ended", "cancelled"}
        /\ streams[p].joined > 0
        /\ streams[p].yielded > streams[p].joined

\* C27: the subscribed queues are those of the generators that stand in their
\* loop; the queue of a generator that has ended, by a detected disconnect or
\* by cancellation, is not subscribed.
C27_EndedStreamDeregistered ==
    /\ sse_clients = {q \in Streams : streams[q].pc \in {"waiting", "checking"}}
    /\ \A q \in Streams : streams[q].pc \in {"ended", "cancelled"} => q \notin sse_clients

\* One stream has ended by cancellation and one by a detected disconnect,
\* both after subscribing, and the first with events left in its queue.
C27_Witness ==
    /\ \E q \in Streams :
          /\ streams[q].pc = "cancelled"
          /\ q \in DOMAIN queues /\ queues[q] # <<>>
    /\ \E q \in Streams :
          /\ streams[q].pc = "ended"
          /\ q \in DOMAIN queues

(* ======================================================================= *)
(* Claims about startup (specification SpecStartup)                       *)
(* ======================================================================= *)

\* The secrets the claim names, as environment e sets them.
PasswordHashMissing(e) == e.PASSWORD_HASH = ""

SecretMissing(e) ==
    \/ ParseSecrets(e.SESSION_SECRETS) = <<>>
    \/ e.ALLOW_SHARED_AGENT_TOKEN /\ e.API_TOKEN = ""
    \/ (e.AUTO_PROVISION_AGENT_TOKENS \/ ~e.ALLOW_SHARED_AGENT_TOKEN)
          /\ e.AGENT_TOKEN_HASH_SECRET = ""

\* The startup handler has raised: the server does not serve, and neither
\* init_db nor cleanup_expired_sessions has touched the store.
StartupFailed ==
    /\ serving' = FALSE
    /\ last'.code = 1
    /\ UNCHANGED <<hosts, command_log, command_log_seq, sessions>>

\* C28 as stated: a startup with one of the named secrets missing fails before
\* the store is initialised.
C28_Original ==
    [][\A e \in StartupEnvs :
          (last'.op = "startup" /\ (PasswordHashMissing(e) \/ SecretMissing(e)) /\ startup(e))
              => StartupFailed]_vars

\* C28, amended: a startup without password hash, or outside development mode
\* without session-signing secrets, without the shared agent token while
\* shared mode is on, or without the agent-token hashing secret while
\* per-host tokens are in use (auto-provisioning on or shared mode off), fails
\* before the store is initialised; and a server that does not serve takes no
\* request until it is started again.
C28_MissingSecretFailsStartup ==
    [][/\ \A e \in StartupEnvs :
            (/\ last'.op = "startup"
             /\ PasswordHashMissing(e) \/ (~e.DEV_MODE /\ SecretMissing(e))
             /\ startup(e)) => StartupFailed
       /\ ~serving => last'.op = "startup"
      ]_vars

\* A startup has failed while the store holds an expired session, which a
\* successful startup would have deleted.
C28_Witness ==
    /\ last.op = "startup" /\ last.code = 1
    /\ ~serving
    /\ cfg.SESSION_SECRETS = <<>>
    /\ \E t \in DOMAIN sessions : sessions[t].expires_at < now

(* ======================================================================= *)
(* Claims about the client address (specification SpecClientIp)           *)
(* ======================================================================= *)

\* The direct peer address of a request; "unknown" without transport peer.
Peer(request) == IF request.client = NULL THEN "unknown" ELSE request.client

NoBlankAtEnds(text) ==
    text = "" \/ (CharAt(text, 1) # " " /\ CharAt(text, Len(text)) # " ")

\* hop is the first hop of header value: the value starts with blanks, hop
\* and blanks, and then it ends or a comma follows; hop holds no comma.
IsFirstHop(hop, value) ==
    /\ Find(hop, ",", 1) = 0 /\ NoBlankAtEnds(hop)
    /\ \E i \in 0..Len(value) :
          /\ i = Len(value) \/ CharAt(value, i + 1) = ","
          /\ \E a, b \in 0..i :
                /\ a + Len(hop) + b = i
                /\ \A j \in (1..a) \cup ((i - b + 1)..i) : CharAt(value, j) = " "
                /\ SubSeq(value, a + 1, a + Len(hop)) = hop

\* value is header text between blanks.
IsTrimmed(text, value) ==
    /\ NoBlankAtEnds(text)
    /\ \E a \in 0..Len(value) :
          /\ a + Len(text) <= Len(value)
          /\ SubSeq(value, a + 1, a + Len(text)) = text
          /\ \A j \in (1..a) \cup ((a + Len(text) + 1)..Len(value)) : CharAt(value, j) = " "

\* C29: the key of a request is the direct peer address, except that with
\* proxy trust enabled and the allowlist empty or holding the peer it is the
\* first hop of X-Forwarded-For if that is not empty, else X-Real-IP if that is
\* not empty, else the direct peer address; so the key of a peer outside a
\* configured allowlist is its address whatever its headers say.
C29_RateLimitKey ==
    last.op = "limiter_key" =>
        LET request == last.request
            xff     == IF request.x_forwarded_for = Absent THEN "" ELSE request.x_forwarded_for
            xri     == IF request.x_real_ip = Absent THEN "" ELSE request.x_real_ip
            trusted == /\ cfg.TRUST_PROXY_HEADERS
                       /\ cfg.TRUSTED_PROXY_IPS = {} \/ Peer(request) \in cfg.TRUSTED_PROXY_IPS
        IN  /\ ~trusted => last.key = Peer(request)
            /\ trusted =>
                  IF ~IsFirstHop("", xff) THEN IsFirstHop(last.key, xff)
                  ELSE IF ~IsTrimmed("", xri) THEN IsTrimmed(last.key, xri)
                  ELSE last.key = Peer(request)
            /\ (cfg.TRUSTED_PROXY_IPS # {} /\ Peer(request) \notin cfg.TRUSTED_PROXY_IPS)
                  => last.key = Peer(request)

\* Proxy trust is on with an allowlist of two proxies. A request of a peer
\* outside the allowlist that carries both headers has got its own address as
\* key.
C29_Witness ==
    /\ last.op = "limiter_key"
    /\ cfg.TRUST_PROXY_HEADERS
    /\ cfg.TRUSTED_PROXY_IPS = {"10.0.0.1", "::1"}
    /\ last.request.client = "10.0.0.9"
    /\ last.request.x_forwarded_for = " 1.1.1.1 , 10.0.0.1"
    /\ last.request.x_real_ip = " 2.2.2.2 "
    /\ last.key = "10.0.0.9"

(* ======================================================================= *)
(* Claims about hosts added on the dashboard (specification SpecAddHost)  *)
(* ======================================================================= *)

\* The step is a request of h's agent that verify_agent_auth_for_host accepts.
AuthenticatedAgentRequest(h) ==
    /\ last'.code = 200
    /\ \E op \in {"register", "poll", "status", "test-progress"}, t \in AgentTokens :
          /\ verify_agent_auth_for_host(h, t).ok
          /\ AgentRequest(op, h, t)

\* C30: an add-host request that is answered 200 inserts one row, under the
\* canonical id and never seen; an add-host request whose canonical id has a
\* row is rejected and leaves the store as it is; a row goes from never seen to
\* seen only in an authenticated request of that host's agent; and list_hosts
\* shows every row once, a row that was never seen with online = false.
C30_AddedHostOffline ==
    [][/\ \A x \in CsrfHeaders, n \in AddHostNames :
            add_host_manually(AdminSession, x, n) =>
                /\ last'.code = 200 =>
                      /\ last'.host \notin DOMAIN hosts
                      /\ DOMAIN hosts' = DOMAIN hosts \cup {last'.host}
                      /\ \A h \in DOMAIN hosts : hosts'[h] = hosts[h]
                      /\ hosts'[last'.host].last_seen = NoTime
                      /\ \A c \in 1..Len(last'.host) :
                            /\ CharAt(last'.host, c) # " "
                            /\ Pos(CharAt(last'.host, c), Upper) = 0
                /\ (\E h \in DOMAIN hosts : h = last'.host) =>
                      /\ last'.code \in {403, 409}
                      /\ x = AdminCsrf => last'.code = 409
                      /\ UNCHANGED <<hosts, command_log, command_log_seq>>
       /\ \A h \in DOMAIN hosts' :
            (/\ h \notin DOMAIN hosts \/ hosts[h].last_seen = NoTime
             /\ hosts'[h].last_seen # NoTime) => AuthenticatedAgentRequest(h)
       /\ (list_hosts(AdminSession) /\ last'.op = "hosts") =>
            /\ last'.code = 200
            /\ {e.id : e \in last'.hosts} = DOMAIN hosts
            /\ \A h \in DOMAIN hosts :
                  /\ Cardinality({e \in last'.hosts : e.id = h}) = 1
                  /\ \A e \in last'.hosts :
                        (e.id = h /\ hosts[h].last_seen = NoTime) => e.online = FALSE
      ]_vars

\* list_hosts has answered, five minutes or more after the start, with one
\* entry: the host that was added on the dashboard, never seen and offline.
C30_Witness ==
    /\ last.op = "hosts" /\ last.code = 200
    /\ now >= COMMAND_TIMEOUT_MINUTES
    /\ \E e \in last.hosts :
          /\ last.hosts = {e}
          /\ e.id = "node-1"
          /\ e.online = FALSE
          /\ e.row.last_seen = NoTime
          /\ e.row.comment = "Manually added, awaiting agent connection"
    /\ DOMAIN hosts = {"node-1"}

(* ======================================================================= *)
(* Claims about token rotation and auto-provisioning (SpecAgent)          *)
(* ======================================================================= *)

\* C31: in the state after a successful rotation for host h, a poll for h
\* with the token that the rotation returned is accepted, a poll with any
\* per-host token issued earlier is answered 401, and with shared mode off a
\* poll is accepted only with the token that the rotation returned.
C31_RotationReplacesToken ==
    [][\A h \in AgentHosts :
          (last.op = "rotate" /\ last.code = 200 /\ last.host = h /\ last'.op = "poll") =>
              \A t \in AgentCredentials :
                  poll_commands(h, t) =>
                      /\ t = last.agent_token => last'.code = 200
                      /\ (t \in MintedTokens /\ t # last.agent_token) => last'.code = 401
                      /\ ~cfg.ALLOW_SHARED_AGENT_TOKEN =>
                            (last'.code = 200 <=> t = last.agent_token)
      ]_vars

\* The second token of the run has been issued by a rotation for the only
\* host, which held the hash of the first, while shared mode is off.
C31_Witness ==
    /\ last.op = "rotate" /\ last.code = 200 /\ last.host = "node-1"
    /\ last.agent_token = "agent-token-2"
    /\ minted = 2
    /\ DOMAIN hosts = {"node-1"}
    /\ hosts["node-1"].agent_token_hash = "hmac(agent-hash-secret,agent-token-2)"
    /\ ~cfg.ALLOW_SHARED_AGENT_TOKEN

(* ======================================================================= *)
(* Claims about published events (specification SpecEvents)               *)
(* ======================================================================= *)

\* Event e was published by the handler of operation op with the row of its
\* host committed as the event says.
ReportsCommitted(e, op) ==
    LET h == e.host_id
    IN  /\ e.type = "command_queued" =>
              /\ op = "command" /\ h \in DOMAIN hosts'
              /\ hosts'[h].pending_command = e.pending_command
              /\ e.test_running = "True" => hosts'[h].test_running = 1
              /\ e.test_running = "False" => hosts'[h].test_running = 0
        /\ e.type = "test_progress" =>
              /\ op = "test-progress"
              /\ h \in DOMAIN hosts' =>
                    /\ hosts'[h].test_running = (IF e.test_running = "True" THEN 1 ELSE 0)
                    /\ hosts'[h].last_seen = now
        /\ e.type = "host_update" =>
              /\ op \in {"add_host", "register", "status"}
              /\ op \in {"add_host", "register"} => h \in DOMAIN hosts'
              /\ (op = "status" /\ h \in DOMAIN hosts') =>
                    /\ hosts'[h].last_seen = now
                    /\ hosts'[h].status = "ok"

C33_PollRecreatesHost ==
    [][\A h \in AgentHosts :
          /\ (/\ last'.op = "poll"
              /\ h \notin DOMAIN hosts
              /\ verify_agent_auth_for_host(h, SharedToken).ok
              /\ poll_commands(h, SharedToken)) =>
                 /\ last'.code = 200 /\ last'.command = NULL
                 /\ DOMAIN hosts' = DOMAIN hosts \cup {h}
                 /\ hosts'[h].last_seen = now
                 /\ hosts'[h].pending_command = NULL
                 /\ \A g \in DOMAIN hosts : hosts'[g] = hosts[g]
                 /\ command_log' = command_log
          /\ (/\ last'.op = "delete_host" /\ last'.code = 200
              /\ delete_host(h, AdminSession, AdminCsrf)) =>
                 /\ h \in DOMAIN hosts
                 /\ DOMAIN hosts' = DOMAIN hosts \ {h}
      ]_vars

\* A poll has been answered with no command and no token, and the row of its
\* host is as the poll inserts it: seen now, never registered, without hash.
C33_Witness ==
    /\ last.op = "poll" /\ last.code = 200
    /\ last.command = NULL /\ last.agent_token = NULL
    /\ last.host \in DOMAIN hosts
    /\ hosts[last.host].last_seen = now
    /\ hosts[last.host].current_generation = NULL
    /\ hosts[last.host].agent_token_hash = NULL
    /\ hosts[last.host].pending_command = NULL
    /\ minted > 0

(* ======================================================================= *)
(* Claims about the mailbox and the test state (specification Spec)        *)
(* ======================================================================= *)

\* C34: a queued command leaves the mailbox of its host only in a poll that
\* returns it, in a successful queue_command for that host (stop, or another
\* command that replaces it), or when the dashboard clears it as stale; no
\* status or test-progress report empties a mailbox.
C34_MailboxLeftOnlyByPollQueueOrTimeout ==
    [][\A h \in DOMAIN hosts :
          (/\ hosts[h].pending_command # NULL
           /\ h \in DOMAIN hosts'
           /\ hosts'[h].pending_command # hosts[h].pending_command) =>
              \/ /\ last'.op = "poll" /\ last'.host = h /\ last'.code = 200
                 /\ last'.command = hosts[h].pending_command
              \/ last'.op = "command" /\ last'.host = h /\ last'.code = 200
              \/ last'.op = "dashboard" /\ last'.code = 200 /\ Stale(hosts[h])
      ]_vars

\* C35: from the state that a successful stop for host h leaves, every step
\* other than a successful queue_command(h, test) leaves test_running of h
\* false, a test-progress report with running=true included.
C35_StoppedTestStaysStopped ==
    [][\A h \in DOMAIN hosts :
          (/\ last.op = "command" /\ last.command = "stop" /\ last.code = 200
           /\ last.host = h
           /\ h \in DOMAIN hosts'
           /\ ~(last'.op = "command" /\ last'.command = "test" /\ last'.code = 200)) =>
              hosts'[h].test_running = 0
      ]_vars

\* C36: when a status report for host h has published its host_update event,
\* the row of h agrees with the event: where the event says pending_command
\* null the mailbox is empty, and where it says test_running false the stored
\* test_running is false.
C36_StatusEventAgreesWithStore ==
    (last.op = "status" /\ last.code = 200 /\ last.host \in DOMAIN hosts) =>
        \A i \in DOMAIN published :
            (published[i].type = "host_update" /\ published[i].host_id = last.host) =>
                /\ published[i].pending_command = NULL =>
                      hosts[last.host].pending_command = NULL
                /\ published[i].test_running = "False" =>
                      hosts[last.host].test_running = 0

(* ======================================================================= *)
(* Claims about the order of events (specification SpecOrder)             *)
(* ======================================================================= *)

\* C37: broadcasts lists the published events in the order of the commits
\* they report.  A request that commits and publishes appends its event, the
\* one that describes its own mutation, to the queue of a subscriber or
\* drops it, and changes nothing that the queue held; so in every queue the
\* events stand in the order of their commits.
C37_EventsInCommitOrder ==
    [][/\ Len(broadcasts') > Len(broadcasts) =>
            LET n == Len(broadcasts')
                e == broadcasts'[n]
            IN  /\ n = Len(broadcasts) + 1
                /\ SubSeq(broadcasts', 1, n - 1) = broadcasts
                /\ e.host_id = last'.host
                /\ last'.op = "command" =>
                      /\ e.type = "command_queued"
                      /\ e.pending_command = hosts'[e.host_id].pending_command
                /\ last'.op = "status" => e.type = "host_update"
                /\ \A q \in sse_clients :
                      \/ queues'[q] = queues[q]
                      \/ queues'[q] = Append(queues[q], [seq |-> n, event |-> e])
       /\ \A q \in sse_clients :
            /\ \A i, j \in 1..Len(queues[q]) : i < j => queues[q][i].seq < queues[q][j].seq
            /\ \A i \in 1..Len(queues[q]) :
                  /\ queues[q][i].seq \in 1..Len(broadcasts)
                  /\ queues[q][i].event = broadcasts[queues[q][i].seq]
      ]_vars

\* The queue of a subscriber holds two events about one host from different
\* requests, that of a queue_command before that of the status report which
\* was committed after it, while the mailbox still holds the command.
C37_Witness ==
    \E q \in sse_clients :
        /\ Len(queues[q]) = 2
        /\ queues[q][1].event.type = "command_queued"
        /\ queues[q][1].event.pending_command = "pull"
        /\ queues[q][2].event.type = "host_update"
        /\ queues[q][1].event.host_id = queues[q][2].event.host_id
        /\ last.op = "status"
        /\ hosts["node-1"].pending_command = "pull"

(* ======================================================================= *)
(* Claims about the per-host hash (specification SpecAgent)               *)
(* ======================================================================= *)

\* C38: a register or poll request mints at most one token, and only for a
\* host whose hash was null or that had no row; a hash that is set changes
\* only in a successful rotation for its host and disappears only with the
\* row in a successful delete_host.
C38_ProvisionOnlyWhenNull ==
    [][/\ \A h \in DOMAIN hosts :
            (/\ hosts[h].agent_token_hash # NULL
             /\ h \notin DOMAIN hosts' \/ hosts'[h].agent_token_hash # hosts[h].agent_token_hash)
                => \/ /\ last'.op = "rotate" /\ last'.code = 200 /\ last'.host = h
                      /\ h \in DOMAIN hosts' /\ hosts'[h].agent_token_hash # NULL
                   \/ /\ last'.op = "delete_host" /\ last'.code = 200 /\ last'.host = h
                      /\ h \notin DOMAIN hosts'
       /\ (last'.op \in {"register", "poll"} /\ minted' # minted) =>
            /\ minted' = minted + 1
            /\ last'.code = 200 /\ last'.agent_token # NULL
            /\ last'.host \in DOMAIN hosts =>
                  hosts[last'.host].agent_token_hash = NULL
            /\ hosts'[last'.host].agent_token_hash # NULL
            /\ \A g \in DOMAIN hosts' \ {last'.host} :
                  g \in DOMAIN hosts /\ hosts'[g] = hosts[g]
      ]_vars

\* With auto-provisioning on and the hashing secret set, a register request
\* for a host whose hash is set has been accepted without a token in the
\* response: the one token of the run was minted before.
C38_Witness ==
    /\ last.op = "register" /\ last.code = 200 /\ last.agent_token = NULL
    /\ cfg.AUTO_PROVISION_AGENT_TOKENS /\ cfg.AGENT_TOKEN_HASH_SECRET # ""
    /\ last.host \in DOMAIN hosts
    /\ hosts[last.host].agent_token_hash = "hmac(agent-hash-secret,agent-token-1)"
    /\ minted = 1

(* ======================================================================= *)
(* Claims about the command log (specification SpecLog)                   *)
(* ======================================================================= *)

\* The entries of log that carry the id of entry.
SameId(log, entry) == {j \in 1..Len(log) : log[j].id = entry.id}

\* C39: a step keeps every closed log entry as it is, unless the step is a
\* successful delete_host for the host of the entry; and an entry, open or
\* closed, leaves the log only in such a step.
C39_ClosedEntriesFrozen ==
    [][\A i \in 1..Len(command_log) :
          LET entry == command_log[i]
              deleted == /\ last'.op = "delete_host" /\ last'.code = 200
                         /\ last'.host = entry.host_id
                         /\ entry.host_id \notin DOMAIN hosts'
          IN  /\ SameId(command_log', entry) = {} => deleted
              /\ (entry.completed_at # NoTime /\ ~deleted) =>
                    \E j \in SameId(command_log', entry) : command_log'[j] = entry
      ]_vars

\* A status report with status error has been accepted for a host all of
\* whose log entries were closed with status ok at an earlier time.
C39_Witness ==
    /\ last.op = "status" /\ last.code = 200
    /\ last.host \in DOMAIN hosts
    /\ hosts[last.host].status = "error"
    /\ \E i \in 1..Len(command_log) : command_log[i].host_id = last.host
    /\ \A i \in 1..Len(command_log) :
          command_log[i].host_id = last.host =>
              /\ command_log[i].status = "ok"
              /\ command_log[i].completed_at # NoTime
              /\ command_log[i].completed_at < now

\* C40: every command-log entry belongs to a host that has a row.
C40_LogEntriesHaveHost ==
    \A i \in 1..Len(command_log) : command_log[i].host_id \in DOMAIN hosts

\* A host with a log entry has been deleted, and the entry of the other host
\* is still in the log.
C40_Witness ==
    /\ last.op = "delete_host" /\ last.code = 200
    /\ last.host \notin DOMAIN hosts
    /\ command_log # <<>>
    /\ command_log_seq > Len(command_log)

====
